---- MODULE Spec2Model ----
(***************************************************************************)
(* comfyparse: the recursive-descent parser of comfyparse/parser.py over   *)
(* the token list of comfyparse/lexer.py, building the raw Namespace tree  *)
(* of comfyparse/config.py.                                                *)
(*                                                                         *)
(* The parser is a deterministic function of the token list.  Its nested   *)
(* functions are modelled as step operators on a record of the parser's    *)
(* state (one operator per stretch of code between two calls or returns),  *)
(* with an explicit stack of call frames; the actions of the               *)
(* specification apply these operators to the variables.  The token list   *)
(* is produced on demand: a step is taken once the tokens it inspects are  *)
(* known (or the list is known to end), so that a token the parser never   *)
(* looks at is never enumerated.                                           *)
(***************************************************************************)
EXTENDS Integers, Sequences, FiniteSets, TLC

\* Longest token list that is enumerated over the whole alphabet, over the
\* alphabet of statements and blocks, and over the alphabet of lists.
MaxTokens == 5
MaxBlockTokens == 9
MaxListTokens == 9

----------------------------------------------------------------------------
(* Tokens (lexer.py)                                                       *)

\* Token kinds the parser distinguishes.
LexerState_STRING == "STRING"
LexerState_SYNTAX == "SYNTAX"
LexerState_READY == "READY"
LexerState_VALUE == "VALUE"
LexerState_COMMENT == "COMMENT"

Token(value, kind) == [value |-> value, kind |-> kind]

\* ComfyLexer.SYNTAX: each of these characters is a SYNTAX token of its own.
SYNTAX == {"{", "}", "[", "]", "=", ":", ",", ";", "\n"}

\* Python's `x in "=:"` on strings is a substring test: the values for which
\* `value in lexer.ASSIGNMENT` is true are the substrings of "=:".
ASSIGNMENT == {"", "=", ":", "=:"}

\* The substrings of lexer.STMTEND = ";\n".
STMTEND == {"", ";", "\n", ";\n"}

\* The substrings of the literal ',]' of parse_list.
LISTDELIM == {"", ",", "]", ",]"}

\* Values of the STRING tokens that are enumerated: two words, the empty
\* string (the token of the source text '') and a quoted newline (the token
\* of the source text '\n').
StringValues == {"a", "b", "", "\n"}

TokenAlphabet ==
    {Token(v, LexerState_STRING) : v \in StringValues} \cup
    {Token(v, LexerState_SYNTAX) : v \in SYNTAX}

\* Sources of statements and (named) blocks over two words.
BlockAlphabet ==
    {Token(v, LexerState_STRING) : v \in {"a", "b"}} \cup
    {Token(v, LexerState_SYNTAX) : v \in {"{", "}", "=", ";"}}

\* Sources of (nested, multi-line) list values over two words.
ListAlphabet ==
    {Token(v, LexerState_STRING) : v \in {"a", "b"}} \cup
    {Token(v, LexerState_SYNTAX) : v \in {"=", "[", "]", ",", "\n"}}

\* The sources that are enumerated: every token list over one of the
\* alphabets, up to the length given with it.
Vocabularies == {"all", "blocks", "lists"}

Alphabet(v) ==
    CASE v = "all" -> TokenAlphabet
      [] v = "blocks" -> BlockAlphabet
      [] v = "lists" -> ListAlphabet

MaxLen(v) ==
    CASE v = "all" -> MaxTokens
      [] v = "blocks" -> MaxBlockTokens
      [] v = "lists" -> MaxListTokens

\* str.count("\n") for the values above (none holds two newlines).
CountNewlines(v) == IF v \in {"\n", ";\n"} THEN 1 ELSE 0

----------------------------------------------------------------------------
(* Values of the raw tree (config.py)                                      *)

None == "None"

Str(v) == [t |-> "str", s |-> v]
List(items) == [t |-> "list", items |-> items]
Namespace(name, attrs) == [t |-> "ns", name |-> name, attrs |-> attrs]
Dict(insts) == [t |-> "dict", insts |-> insts]

EmptyMap == <<>>

\* Namespace.__contains__ / `key in dict`
Contains(node, k) ==
    IF node.t = "ns" THEN k \in DOMAIN node.attrs ELSE k \in DOMAIN node.insts

\* Namespace.__getitem__ / dict.__getitem__
GetItem(node, k) == IF node.t = "ns" THEN node.attrs[k] ELSE node.insts[k]

\* Namespace.__setitem__ / dict.__setitem__
SetItem(node, k, v) ==
    IF node.t = "ns" THEN [node EXCEPT !.attrs = (k :> v) @@ @]
                     ELSE [node EXCEPT !.insts = (k :> v) @@ @]

\* A Namespace object is identified by the keys that lead to it from the
\* root: every Namespace the parser creates is stored in exactly one place,
\* and only the innermost open one is written, so the path of an open
\* Namespace stays valid while it is open.
RECURSIVE GetAt(_, _)
GetAt(node, path) ==
    IF path = <<>> THEN node
    ELSE GetAt(GetItem(node, Head(path)), Tail(path))

RECURSIVE SetAt(_, _, _)
SetAt(node, path, v) ==
    IF path = <<>> THEN v
    ELSE SetItem(node, Head(path),
                 SetAt(GetItem(node, Head(path)), Tail(path), v))

----------------------------------------------------------------------------
(* The parser state as a record, and the lexer's cursor operations         *)

\* An active call: the function, the point reached in it, the cursor at
\* which it was called, and its locals `key` (parse_stmt) and `rval`
\* (parse_list).
Frame(fn, pc, start) ==
    [fn |-> fn, pc |-> pc, start |-> start, key |-> "", rval |-> <<>>]

Top(s) == s.frames[Len(s.frames)]
SetTop(s, f) == [s EXCEPT !.frames[Len(s.frames)] = f]
Call(s, fn) == [s EXCEPT !.frames = Append(@, Frame(fn, "enter", s.tknidx))]
Return(s) == [s EXCEPT !.frames = SubSeq(@, 1, Len(@) - 1)]

Raise(s, exc) == [s EXCEPT !.status = exc]

\* The message of a ParseError names no line.
NoLine == 0

\* raise ParseError(f"... line {self._lineno} ...")
ParseErrorAt(s) == [Raise(s, "ParseError") EXCEPT !.msgline = s.lineno]

\* An IndexError of the lexer's list accesses leaves every nested function
\* and is turned into ParseError("Unexpected EOF") by _parse.
RaiseIndexError(s) == Raise(s, "ParseError")

Max(a, b) == IF a > b THEN a ELSE b

\* Records that the step looked at the token at offset k from the cursor.
Touch(s, k) == [s EXCEPT !.touched = Max(@, s.tknidx + k)]

\* ComfyLexer.is_exhausted
is_exhausted(s) == s.tknidx >= Len(s.tokens)

\* Whether ComfyLexer.peek(k) finds a token (else IndexError).
InRange(s, k) == s.tknidx + k < Len(s.tokens)

\* ComfyLexer.peek
peek(s, k) == s.tokens[s.tknidx + k + 1]

\* ComfyLexer.consume (the cursor; the tokens are read with peek before)
consume(s, n) == [s EXCEPT !.tknidx = @ + n]

\* The Namespace on top of block_stack.
CurrentBlock(s) == s.block_stack[Len(s.block_stack)]

\* A variant that writes the root Namespace whatever block is open.
StoreInRoot(s, key, value) ==
    [s EXCEPT !.parsed = SetItem(@, key, value)]

\* block_stack[-1][key] = value
StoreInCurrent(s, key, value) ==
    [s EXCEPT !.parsed =
        SetAt(@, CurrentBlock(s), SetItem(GetAt(@, CurrentBlock(s)), key, value))]

----------------------------------------------------------------------------
(* The grammar functions of ComfyParser._parse                             *)

RECURSIVE parse_newline(_)
parse_newline(s) ==
    LET s1 == Touch(s, 0) IN
    IF ~is_exhausted(s1) /\ peek(s1, 0).value = "\n"
    THEN parse_newline([consume(s1, 1) EXCEPT !.lineno = @ + 1])
    ELSE s1

parse_string(s) ==
    LET s1 == Touch(s, 0) IN
    IF is_exhausted(s1) THEN RaiseIndexError(s1)
    ELSE LET token == peek(s1, 0)
             s2 == consume(s1, 1)
         IN IF token.kind # LexerState_STRING THEN ParseErrorAt(s2)
            ELSE [s2 EXCEPT !.lineno = @ + CountNewlines(token.value),
                            !.retval = Str(token.value)]

\* parse_stmt from the terminator check on, with the statement's value.
stmt_finish(s, key, value) ==
    LET s1 == Touch(s, 0) IN
    IF is_exhausted(s1) THEN RaiseIndexError(s1)
    ELSE IF peek(s1, 0).value \notin STMTEND THEN ParseErrorAt(s1)
    ELSE LET s2 == IF peek(s1, 0).value = ";" THEN consume(s1, 1) ELSE s1
             s3 == parse_newline(s2)
         IN Return(StoreInCurrent(s3, key, value))

\* parse_stmt up to the value: a scalar value is parsed in the same step,
\* a list value by a call of parse_list.
parse_stmt_enter(s) ==
    LET s1 == Touch(s, 0) IN
    IF is_exhausted(s1) THEN RaiseIndexError(s1)
    ELSE LET key == peek(s1, 0).value
             s2 == Touch([consume(s1, 2) EXCEPT !.seps = @ \cup {s.tknidx + 1}], 0)
         IN IF is_exhausted(s2) THEN RaiseIndexError(s2)
            ELSE IF peek(s2, 0).value = "["
            THEN Call(SetTop(s2, [Top(s2) EXCEPT !.pc = "end", !.key = key]),
                      "parse_list")
            ELSE LET s3 == parse_string(s2)
                 IN IF s3.status # "running" THEN s3
                    ELSE stmt_finish(s3, key, s3.retval)

\* parse_stmt after parse_list has returned the value.
parse_stmt_end(s) == stmt_finish(s, Top(s).key, s.retval)

\* A variant that puts the new item in front of the earlier ones.
list_prepend(rval, item) == <<item>> \o rval

\* rval.append(item)
list_append(rval, item) == Append(rval, item)

\* parse_list after an item has been appended to rval.
list_after_item(s, rval) ==
    LET s1 == parse_newline(s)
        s2 == Touch(s1, 0)
    IN IF is_exhausted(s2) THEN RaiseIndexError(s2)
       ELSE IF peek(s2, 0).value \notin LISTDELIM THEN ParseErrorAt(s2)
       ELSE LET token == peek(s2, 0)
                s3 == consume(s2, 1)
            IN IF token.value = "]"
               THEN Return([s3 EXCEPT !.retval = List(rval),
                                      !.spans = @ \cup {<<Top(s).start, s2.tknidx>>}])
               ELSE LET s4 == parse_newline(s3)
                    IN SetTop(s4, [Top(s4) EXCEPT !.pc = "item", !.rval = rval])

\* A variant that lets a list end where its first item is expected.
parse_list_item_or_end(s) ==
    LET f == Top(s)
        s0 == IF f.pc = "enter" THEN consume(Touch(s, 0), 1) ELSE s
        rval == IF f.pc = "enter" THEN <<>> ELSE f.rval
        s1 == parse_newline(s0)
        s2 == Touch(s1, 0)
    IN IF is_exhausted(s2) THEN RaiseIndexError(s2)
       ELSE IF peek(s2, 0).value = "]" /\ f.pc = "enter"
       THEN Return([consume(s2, 1) EXCEPT !.retval = List(rval)])
       ELSE IF peek(s2, 0).value = "["
       THEN Call(SetTop(s2, [f EXCEPT !.pc = "sep", !.rval = rval]), "parse_list")
       ELSE IF peek(s2, 0).kind = LexerState_STRING
       THEN LET s3 == parse_string(s2)
            IN list_after_item(s3, list_append(rval, s3.retval))
       ELSE Raise(s2, "ParseError")

\* parse_list at the top of its loop (on entry after consuming the '[').
parse_list_item(s) ==
    LET f == Top(s)
        s0 == IF f.pc = "enter" THEN consume(Touch(s, 0), 1) ELSE s
        rval == IF f.pc = "enter" THEN <<>> ELSE f.rval
        s1 == parse_newline(s0)
        s2 == Touch(s1, 0)
    IN IF is_exhausted(s2) THEN RaiseIndexError(s2)
       ELSE IF peek(s2, 0).value = "["
       THEN Call(SetTop(s2, [f EXCEPT !.pc = "sep", !.rval = rval]), "parse_list")
       ELSE IF peek(s2, 0).kind = LexerState_STRING
       THEN LET s3 == parse_string(s2)
            IN list_after_item(s3, list_append(rval, s3.retval))
       ELSE Raise(s2, "ParseError")   \* the message is not an f-string

\* parse_list after a nested parse_list has returned an item.
parse_list_sep(s) == list_after_item(s, list_append(Top(s).rval, s.retval))

\* parse_block after the header: skip newlines, then the body loop.
block_body(s) ==
    LET s1 == parse_newline(s) IN SetTop(s1, [Top(s1) EXCEPT !.pc = "loop"])

\* A variant that starts a new mapping at every named header.
open_named_fresh(s, kind, name) ==
    LET new_block == Namespace(name, EmptyMap)
        s1 == StoreInCurrent(s, kind, Dict(name :> new_block))
    IN block_body([s1 EXCEPT !.block_stack =
                       Append(@, CurrentBlock(s) \o <<kind, name>>)])

\* The header of a named block: block_stack[-1][kind][name] = new_block,
\* or block_stack[-1][kind] = {name: new_block} on KeyError.
open_named(s, kind, name) ==
    LET cur == GetAt(s.parsed, CurrentBlock(s))
        new_block == Namespace(name, EmptyMap)
        pushed(t) == [t EXCEPT !.block_stack =
                          Append(@, CurrentBlock(s) \o <<kind, name>>)]
    IN IF ~Contains(cur, kind)
       THEN block_body(pushed(StoreInCurrent(s, kind, Dict(name :> new_block))))
       ELSE IF GetItem(cur, kind).t \in {"dict", "ns"}
       THEN block_body(pushed(StoreInCurrent(s, kind,
                                  SetItem(GetItem(cur, kind), name, new_block))))
       ELSE Raise(s, "TypeError")

parse_block_enter(s) ==
    LET s0 == Touch(s, 0) IN
    IF is_exhausted(s0) THEN RaiseIndexError(s0)
    ELSE LET kind == peek(s0, 0).value
             s1 == Touch(consume(s0, 1), 0)
         IN IF is_exhausted(s1) THEN RaiseIndexError(s1)
            ELSE IF peek(s1, 0).value = "{"
            THEN LET s2 == StoreInCurrent(consume(s1, 1), kind,
                                          Namespace(None, EmptyMap))
                 IN block_body([s2 EXCEPT !.block_stack =
                                   Append(@, CurrentBlock(s) \o <<kind>>)])
            ELSE IF peek(s1, 0).kind = LexerState_STRING
            THEN LET s2 == Touch(s1, 1)
                 IN IF ~InRange(s2, 1) THEN RaiseIndexError(s2)
                    ELSE IF peek(s2, 1).value = "{"
                    THEN open_named(consume(s2, 2), kind, peek(s2, 0).value)
                    ELSE ParseErrorAt(s2)
            ELSE ParseErrorAt(s1)

\* A variant that leaves the closed block on block_stack.
parse_block_loop_keep(s) ==
    LET s1 == Touch(s, 0) IN
    IF is_exhausted(s1) THEN RaiseIndexError(s1)
    ELSE IF peek(s1, 0).value # "}" THEN Call(s1, "parse_expr")
    ELSE Return(consume(s1, 1))

\* A variant that goes on with the body when the tokens have run out.
parse_block_loop_on(s) ==
    LET s1 == Touch(s, 0) IN
    IF is_exhausted(s1) \/ peek(s1, 0).value # "}" THEN Call(s1, "parse_expr")
    ELSE Return([consume(s1, 1) EXCEPT
                    !.block_stack = SubSeq(@, 1, Len(@) - 1)])

\* The loop of parse_block: another expression, or the closing '}'.
parse_block_loop(s) ==
    LET s1 == Touch(s, 0) IN
    IF is_exhausted(s1) THEN RaiseIndexError(s1)
    ELSE IF peek(s1, 0).value # "}" THEN Call(s1, "parse_expr")
    ELSE Return([consume(s1, 1) EXCEPT
                    !.block_stack = SubSeq(@, 1, Len(@) - 1)])

parse_expr_enter(s) ==
    LET s1 == parse_newline(s) IN
    IF is_exhausted(s1) THEN Return(s1)
    ELSE LET s2 == Touch(s1, 1)
             s3 == SetTop(s2, [Top(s2) EXCEPT !.pc = "exit"])
         IN IF ~InRange(s2, 1) THEN RaiseIndexError(s2)
            ELSE IF peek(s2, 1).value \in ASSIGNMENT
            THEN Call(s3, "parse_stmt")
            ELSE Call(s3, "parse_block")

parse_expr_exit(s) == Return(parse_newline(s))

\* The loop of _parse: `while not lexer.is_exhausted(): parse_expr()`,
\* then `return parsed`.
parse_loop(s) ==
    LET s1 == Touch(s, 0) IN
    IF is_exhausted(s1) THEN [s1 EXCEPT !.status = "returned"]
    ELSE Call(s1, "parse_expr")

\* The step the parser takes next.
Step(s) ==
    LET f == Top(s) IN
    CASE f.fn = "_parse" -> parse_loop(s)
      [] f.fn = "parse_expr" /\ f.pc = "enter" -> parse_expr_enter(s)
      [] f.fn = "parse_expr" /\ f.pc = "exit" -> parse_expr_exit(s)
      [] f.fn = "parse_block" /\ f.pc = "enter" -> parse_block_enter(s)
      [] f.fn = "parse_block" /\ f.pc = "loop" -> parse_block_loop(s)
      [] f.fn = "parse_stmt" /\ f.pc = "enter" -> parse_stmt_enter(s)
      [] f.fn = "parse_stmt" /\ f.pc = "end" -> parse_stmt_end(s)
      [] f.fn = "parse_list" /\ f.pc \in {"enter", "item"} -> parse_list_item(s)
      [] f.fn = "parse_list" /\ f.pc = "sep" -> parse_list_sep(s)

\* The state of _parse after lexer.tokenize() has produced `toks`.
ParserStart(toks) ==
    [tokens |-> toks, tknidx |-> 0, lineno |-> 1,
     parsed |-> Namespace(None, EmptyMap), block_stack |-> << <<>> >>,
     frames |-> <<Frame("_parse", "loop", 0)>>, retval |-> Str(""),
     status |-> "running", msgline |-> NoLine, seps |-> {}, spans |-> {},
     touched |-> -1]

\* _parse on a complete token list.
RECURSIVE Run(_)
Run(s) == IF s.status # "running" THEN s ELSE Run(Step(s))

----------------------------------------------------------------------------
(* The state machine                                                       *)

VARIABLES
    vocabulary,   \* which alphabet the source is written in
    tokens,       \* lexer._tokens, as far as it has been produced
    closed,       \* TRUE when tokens is the whole list
    tknidx,       \* lexer._tknidx
    lineno,       \* self._lineno
    parsed,       \* the root Namespace
    block_stack,  \* the open Namespaces, innermost last
    frames,       \* the active calls of the nested functions
    retval,       \* the value returned by the last parse_string / parse_list
    status,       \* "running", "returned", or the exception that escaped
    msgline,      \* the line number in the message of the ParseError
    seps,         \* history: the positions of the tokens consumed as the
                  \* separator of a statement
    spans,        \* history: the positions <<first, last>> of the '[' and
                  \* the ']' of every list that parse_list has returned
    source,       \* lexer._source, as far as it is known
    srcclosed,    \* TRUE when source is the whole string
    srcchar,      \* lexer._srcchar
    state,        \* lexer.state
    token,        \* the local `token` of _tokenize, character by character
    tokstart,     \* history: the position of the first character of `token`
    config_spec,  \* parser._config_spec, the root ConfigBlock
    config,       \* the raw Namespace given to validate_block, as its
                  \* caller sees it
    calls,        \* the active calls of validate_block, innermost last
    config0,      \* history: the raw Namespace as it was given
    vlog,         \* history: the callables the last validate_value has
                  \* called, with their arguments, in order
    paths,        \* what the file of each path parses to
    pathidx,      \* the number of paths parse_config_files has gone through
    validate_calls, \* history: the number of calls of ComfyParser.validate
    addlog,       \* history: the add_setting and add_block calls made on
                  \* the schema, with their outcomes, in order
    lexcall       \* history: the last call made on the lexer from outside,
                  \* its outcome, and the scans and the first token list

\* The variables of the lexer's scan.
lexvars == <<source, srcclosed, srcchar, state, token, tokstart>>

\* The variables of a validation, of the schema and of the calls on a
\* lexer.
valvars == <<config_spec, config, calls, config0, vlog, paths, pathidx,
             validate_calls, addlog, lexcall>>

vars == <<vocabulary, tokens, closed, tknidx, lineno, parsed, block_stack,
          frames, retval, status, msgline, seps, spans, lexvars, valvars>>

\* ComfyLexer.__init__
LexerInit ==
    /\ srcchar = 0
    /\ state = LexerState_READY
    /\ token = <<>>
    /\ tokstart = 0

\* No call has been made on the lexer from outside.
NoCall ==
    [n |-> 0, op |-> "none", arg |-> 0, scans |-> 0, exc |-> "none",
     result |-> <<>>, first |-> <<>>]

\* ComfyParser.__init__ without a schema, and no validation under way.
NoValidation ==
    /\ config_spec = None
    /\ config = Namespace(None, EmptyMap)
    /\ calls = <<>>
    /\ config0 = Namespace(None, EmptyMap)
    /\ vlog = <<>>
    /\ paths = <<>>
    /\ pathidx = 0
    /\ validate_calls = 0
    /\ addlog = <<>>
    /\ lexcall = NoCall

Cur == [tokens |-> tokens, tknidx |-> tknidx, lineno |-> lineno,
        parsed |-> parsed, block_stack |-> block_stack, frames |-> frames,
        retval |-> retval, status |-> status, msgline |-> msgline,
        seps |-> seps,
        spans |-> spans, touched |-> -1]

Init ==
    /\ vocabulary \in Vocabularies
    /\ tokens = <<>>
    /\ closed = FALSE
    /\ tknidx = 0
    /\ lineno = 1
    /\ parsed = Namespace(None, EmptyMap)
    /\ block_stack = << <<>> >>
    /\ frames = <<Frame("_parse", "loop", 0)>>
    /\ retval = Str("")
    /\ status = "running"
    /\ msgline = NoLine
    /\ seps = {}
    /\ spans = {}
    /\ source = <<>>
    /\ srcclosed = TRUE
    /\ LexerInit
    /\ NoValidation

\* The step inspects only tokens that are known.
Decided(r) == closed \/ r.touched < Len(tokens)

Install(r) ==
    /\ tknidx' = r.tknidx
    /\ lineno' = r.lineno
    /\ parsed' = r.parsed
    /\ block_stack' = r.block_stack
    /\ frames' = r.frames
    /\ retval' = r.retval
    /\ status' = r.status
    /\ msgline' = r.msgline
    /\ seps' = r.seps
    /\ spans' = r.spans
    /\ UNCHANGED <<vocabulary, tokens, closed, lexvars, valvars>>

At(fn, pcs) ==
    /\ status = "running"
    /\ frames[Len(frames)].fn = fn
    /\ frames[Len(frames)].pc \in pcs

ParseLoop ==
    At("_parse", {"loop"}) /\ Decided(parse_loop(Cur)) /\ Install(parse_loop(Cur))

ParseExprEnter ==
    /\ At("parse_expr", {"enter"})
    /\ Decided(parse_expr_enter(Cur))
    /\ Install(parse_expr_enter(Cur))

ParseExprExit ==
    /\ At("parse_expr", {"exit"})
    /\ Decided(parse_expr_exit(Cur))
    /\ Install(parse_expr_exit(Cur))

ParseBlockEnter ==
    /\ At("parse_block", {"enter"})
    /\ Decided(parse_block_enter(Cur))
    /\ Install(parse_block_enter(Cur))

ParseBlockLoop ==
    /\ At("parse_block", {"loop"})
    /\ Decided(parse_block_loop(Cur))
    /\ Install(parse_block_loop(Cur))

ParseStmtEnter ==
    /\ At("parse_stmt", {"enter"})
    /\ Decided(parse_stmt_enter(Cur))
    /\ Install(parse_stmt_enter(Cur))

ParseStmtEnd ==
    /\ At("parse_stmt", {"end"})
    /\ Decided(parse_stmt_end(Cur))
    /\ Install(parse_stmt_end(Cur))

ParseListItem ==
    /\ At("parse_list", {"enter", "item"})
    /\ Decided(parse_list_item(Cur))
    /\ Install(parse_list_item(Cur))

ParseListSep ==
    /\ At("parse_list", {"sep"})
    /\ Decided(parse_list_sep(Cur))
    /\ Install(parse_list_sep(Cur))

\* The next token of the list becomes known.
NextToken ==
    /\ status = "running"
    /\ ~closed
    /\ ~Decided(Step(Cur))
    /\ Len(tokens) < MaxLen(vocabulary)
    /\ \E t \in Alphabet(vocabulary) : tokens' = Append(tokens, t)
    /\ UNCHANGED <<vocabulary, closed, tknidx, lineno, parsed, block_stack,
                   frames, retval, status, msgline, seps, spans, lexvars,
                   valvars>>

\* The list turns out to end here.
EndOfTokens ==
    /\ status = "running"
    /\ ~closed
    /\ ~Decided(Step(Cur))
    /\ closed' = TRUE
    /\ UNCHANGED <<vocabulary, tokens, tknidx, lineno, parsed, block_stack,
                   frames, retval, status, msgline, seps, spans, lexvars,
                   valvars>>

Next ==
    \/ ParseLoop
    \/ ParseExprEnter
    \/ ParseExprExit
    \/ ParseBlockEnter
    \/ ParseBlockLoop
    \/ ParseStmtEnter
    \/ ParseStmtEnd
    \/ ParseListItem
    \/ ParseListSep
    \/ NextToken
    \/ EndOfTokens

Spec == Init /\ [][Next]_vars

TypeOK ==
    /\ status \in {"running", "returned", "ParseError", "TypeError"}
    /\ tknidx \in 0..Len(tokens)
    /\ Len(tokens) <= MaxLen(vocabulary)

----------------------------------------------------------------------------
(* The lexer: ComfyLexer._tokenize, one step per iteration of its loop     *)

\* Longest source string that is enumerated, and the largest line number an
\* earlier call of the parser has left in self._lineno.
MaxSource == 5
MaxLines == 2

\* ComfyLexer.WHITESPACE, COMMENT and QUOTES, as sets of characters.
WHITESPACE == {"\t", " "}
COMMENT == {"%", "#"}
QUOTES == {"'", "\""}

\* The characters sources are written in: a blank, two syntax characters, a
\* comment starter, both quotes, the backslash and two bare characters.
Chars == {" ", "=", "\n", "#", "'", "\"", "\\", "n", "x"}

\* The string of a sequence of characters.
RECURSIVE Join(_)
Join(cs) == IF cs = <<>> THEN "" ELSE Head(cs) \o Join(Tail(cs))

\* bytes(unit, 'utf-8').decode("unicode_escape") for what consume_char(2)
\* returns at a backslash: the backslash alone at the end of the source and
\* a truncated \x escape raise UnicodeDecodeError, a backslash before a
\* newline decodes to nothing, other pairs are kept as they are.
unicode_escape(unit) ==
    IF Len(unit) < 2 \/ unit[2] = "x" THEN [ok |-> FALSE, chars |-> <<>>]
    ELSE IF unit[2] = "n" THEN [ok |-> TRUE, chars |-> <<"\n">>]
    ELSE IF unit[2] = "\n" THEN [ok |-> TRUE, chars |-> <<>>]
    ELSE IF unit[2] \in {"'", "\"", "\\"} THEN [ok |-> TRUE, chars |-> <<unit[2]>>]
    ELSE [ok |-> TRUE, chars |-> unit]

\* ComfyLexer._peek_char
peek_char(l) == l.source[l.srcchar + 1]

\* ComfyLexer._consume_char (the cursor)
consume_char(l, k) == [l EXCEPT !.srcchar = @ + k]

\* self._tokens.append(Token(value, kind))
emit(l, value, kind) == [l EXCEPT !.tokens = Append(@, Token(value, kind))]

lex_ready(l) ==
    LET c == peek_char(l) IN
    IF c \in WHITESPACE THEN consume_char(l, 1)
    ELSE IF c \in COMMENT THEN [l EXCEPT !.state = LexerState_COMMENT]
    ELSE IF c \in SYNTAX THEN [l EXCEPT !.state = LexerState_SYNTAX]
    ELSE IF c \in QUOTES
    THEN [consume_char(l, 1) EXCEPT !.state = LexerState_STRING, !.token = <<c>>,
                                    !.tokstart = l.srcchar]
    ELSE [consume_char(l, 1) EXCEPT !.state = LexerState_VALUE, !.token = <<c>>,
                                    !.tokstart = l.srcchar]

\* A variant that drops the newline ending a comment.
lex_comment_swallow(l) ==
    IF peek_char(l) # "\n" THEN consume_char(l, 1)
    ELSE [consume_char(l, 1) EXCEPT !.state = LexerState_READY]

lex_comment(l) ==
    IF peek_char(l) # "\n" THEN consume_char(l, 1)
    ELSE [emit(consume_char(l, 1), "\n", LexerState_SYNTAX) EXCEPT
             !.state = LexerState_READY]

\* A variant that tags syntax characters as STRING.
lex_syntax_as_string(l) ==
    [emit(consume_char(l, 1), peek_char(l), LexerState_STRING) EXCEPT
        !.state = LexerState_READY]

lex_syntax(l) ==
    [emit(consume_char(l, 1), peek_char(l), l.state) EXCEPT
        !.state = LexerState_READY]

\* A variant that closes a quoted string at either quote character.
lex_string_anyquote(l) ==
    IF peek_char(l) = "\\"
    THEN LET unit == SubSeq(l.source, l.srcchar + 1,
                            IF l.srcchar + 2 <= Len(l.source)
                            THEN l.srcchar + 2 ELSE Len(l.source))
             decoded == unicode_escape(unit)
         IN IF decoded.ok
            THEN [consume_char(l, 2) EXCEPT !.token = @ \o decoded.chars]
            ELSE [consume_char(l, 2) EXCEPT !.status = "UnicodeDecodeError"]
    ELSE IF peek_char(l) \in QUOTES
    THEN [emit(consume_char(l, 1), Join(Tail(l.token)), l.state) EXCEPT
             !.state = LexerState_READY]
    ELSE [consume_char(l, 1) EXCEPT !.token = Append(@, peek_char(l))]

lex_string(l) ==
    IF peek_char(l) = "\\"
    THEN LET unit == SubSeq(l.source, l.srcchar + 1,
                            IF l.srcchar + 2 <= Len(l.source)
                            THEN l.srcchar + 2 ELSE Len(l.source))
             decoded == unicode_escape(unit)
         IN IF decoded.ok
            THEN [consume_char(l, 2) EXCEPT !.token = @ \o decoded.chars]
            ELSE [consume_char(l, 2) EXCEPT !.status = "UnicodeDecodeError"]
    ELSE IF peek_char(l) = l.token[1]
    THEN [emit(consume_char(l, 1), Join(Tail(l.token)), l.state) EXCEPT
             !.state = LexerState_READY]
    ELSE [consume_char(l, 1) EXCEPT !.token = Append(@, peek_char(l))]

\* A variant that takes a quote character into a bare value.
lex_value_lenient(l) ==
    LET nchar == peek_char(l) IN
    IF nchar \in WHITESPACE \/ nchar \in COMMENT \/ nchar \in SYNTAX
    THEN [emit(l, Join(l.token), LexerState_STRING) EXCEPT
             !.state = LexerState_READY]
    ELSE [consume_char(l, 1) EXCEPT !.token = Append(@, nchar)]

lex_value(l) ==
    LET nchar == peek_char(l) IN
    IF nchar \in WHITESPACE \/ nchar \in COMMENT \/ nchar \in SYNTAX
    THEN [emit(l, Join(l.token), LexerState_STRING) EXCEPT
             !.state = LexerState_READY]
    ELSE IF nchar \in QUOTES THEN [l EXCEPT !.status = "SyntaxError"]
    ELSE [consume_char(l, 1) EXCEPT !.token = Append(@, nchar)]

\* A variant that forgets the token the source ends in.
lex_end_drop(l) == [l EXCEPT !.status = "tokenized"]

\* After the loop: what is left of the last token is appended.
lex_end(l) ==
    LET final == IF l.state = LexerState_VALUE THEN LexerState_STRING
                 ELSE l.state
    IN IF l.state = LexerState_READY THEN [l EXCEPT !.status = "tokenized"]
       ELSE [emit(l, Join(l.token), final) EXCEPT
                !.state = final, !.status = "tokenized"]

\* One iteration of `while self._srcchar < len(self._source)`, or the code
\* after the loop.  No branch reads past the end of the source, so the
\* handler of IndexError is never entered.
LexStep(l) ==
    IF l.srcchar >= Len(l.source) THEN lex_end(l)
    ELSE CASE l.state = LexerState_READY -> lex_ready(l)
           [] l.state = LexerState_COMMENT -> lex_comment(l)
           [] l.state = LexerState_SYNTAX -> lex_syntax(l)
           [] l.state = LexerState_STRING -> lex_string(l)
           [] l.state = LexerState_VALUE -> lex_value(l)

\* ComfyLexer(src) before tokenize().
LexerStart(src) ==
    [source |-> src, srcchar |-> 0, state |-> LexerState_READY,
     token |-> <<>>, tokstart |-> 0, tokens |-> <<>>, status |-> "running"]

\* ComfyLexer(src).tokenize()
RECURSIVE Tokenize(_)
Tokenize(l) == IF l.status # "running" THEN l ELSE Tokenize(LexStep(l))

LexCur ==
    [source |-> source, srcchar |-> srcchar, state |-> state, token |-> token,
     tokstart |-> tokstart, tokens |-> tokens, status |-> status]

\* The variables of the parser that a scan leaves alone.
parservars == <<vocabulary, closed, tknidx, parsed, block_stack, frames,
                retval, seps, spans>>

\* A call of _parse on a parser whose earlier calls have left some line
\* number in self._lineno; the source becomes known as it is scanned.
LexInit ==
    /\ vocabulary = "all"
    /\ tokens = <<>>
    /\ closed = FALSE
    /\ tknidx = 0
    /\ lineno \in 1..MaxLines
    /\ parsed = Namespace(None, EmptyMap)
    /\ block_stack = << <<>> >>
    /\ frames = <<Frame("_parse", "loop", 0)>>
    /\ retval = Str("")
    /\ status = "running"
    /\ msgline = NoLine
    /\ seps = {}
    /\ spans = {}
    /\ source = <<>>
    /\ srcclosed = FALSE
    /\ LexerInit
    /\ NoValidation

\* The characters the next iteration reads are known.
LexDecided ==
    \/ srcclosed
    \/ srcchar + 1 <= Len(source)
         /\ (state = LexerState_STRING /\ source[srcchar + 1] = "\\"
                => srcchar + 2 <= Len(source))

LexInstall(l) ==
    /\ srcchar' = l.srcchar
    /\ state' = l.state
    /\ token' = l.token
    /\ tokstart' = l.tokstart
    /\ tokens' = l.tokens
    /\ status' = l.status
    /\ UNCHANGED <<source, srcclosed, lineno, msgline, parservars, valvars>>

LexAt(st) ==
    /\ status = "running"
    /\ srcchar < Len(source)
    /\ LexDecided
    /\ state = st

LexReady == LexAt(LexerState_READY) /\ LexInstall(lex_ready(LexCur))

LexComment == LexAt(LexerState_COMMENT) /\ LexInstall(lex_comment(LexCur))

LexSyntax == LexAt(LexerState_SYNTAX) /\ LexInstall(lex_syntax(LexCur))

LexString == LexAt(LexerState_STRING) /\ LexInstall(lex_string(LexCur))

LexValue == LexAt(LexerState_VALUE) /\ LexInstall(lex_value(LexCur))

LexEnd ==
    /\ status = "running"
    /\ srcclosed
    /\ srcchar >= Len(source)
    /\ LexInstall(lex_end(LexCur))

\* _parse: `except SyntaxError as exc: raise ParseError(f"Invalid input at
\* line {self._lineno}")`.
TokenizeFailed ==
    /\ status = "SyntaxError"
    /\ status' = "ParseError"
    /\ msgline' = lineno
    /\ UNCHANGED <<tokens, lineno, lexvars, parservars, valvars>>

\* _parse: tokenize() has returned; `self._lineno = 1`.
TokenizeReturned ==
    /\ status = "tokenized"
    /\ status' = "parsing"
    /\ lineno' = 1
    /\ UNCHANGED <<tokens, msgline, lexvars, parservars, valvars>>

\* The next character of the source becomes known.
NextChar ==
    /\ status = "running"
    /\ ~LexDecided
    /\ Len(source) < MaxSource
    /\ \E c \in Chars : source' = Append(source, c)
    /\ UNCHANGED <<srcclosed, srcchar, state, token, tokstart, tokens, status,
                   lineno, msgline, parservars, valvars>>

\* The source turns out to end here.
EndOfSource ==
    /\ status = "running"
    /\ ~LexDecided
    /\ srcclosed' = TRUE
    /\ UNCHANGED <<source, srcchar, state, token, tokstart, tokens, status,
                   lineno, msgline, parservars, valvars>>

LexNext ==
    \/ LexReady
    \/ LexComment
    \/ LexSyntax
    \/ LexString
    \/ LexValue
    \/ LexEnd
    \/ TokenizeFailed
    \/ TokenizeReturned
    \/ NextChar
    \/ EndOfSource

LexSpec == LexInit /\ [][LexNext]_vars

----------------------------------------------------------------------------
(* Properties.  Token positions are counted as the lexer counts them, from *)
(* 0: the token at position i is tokens[i + 1].                            *)

TopFrame == frames[Len(frames)]

\* The Namespace on top of block_stack.
Innermost == block_stack[Len(block_stack)]

SyntaxToken(v) == Token(v, LexerState_SYNTAX)

\* The call of `fn` on top of the stack returns normally in this step.
Returns(fn) ==
    /\ status = "running"
    /\ TopFrame.fn = fn
    /\ status' = "running"
    /\ Len(frames') = Len(frames) - 1

IsSeparator(tok) == tok \in {SyntaxToken("="), SyntaxToken(":")}

\* The token list with `=` and `:` exchanged at the positions in S.
SwapSeparators(toks, S) ==
    [i \in 1..Len(toks) |->
        IF (i - 1) \in S
        THEN SyntaxToken(IF toks[i].value = "=" THEN ":" ELSE "=")
        ELSE toks[i]]

\* The statement that returns in this step has stored its value under its
\* key in the Namespace on top of block_stack and changed nothing else: an
\* earlier value of the key is replaced, every other key of every Namespace
\* is kept.  Key and scalar value are read from the token list.
C1_Stored ==
    Returns("parse_stmt") =>
        LET f == TopFrame
            key == tokens[f.start + 1].value
            value == IF f.pc = "enter" THEN Str(tokens[f.start + 3].value)
                     ELSE retval
        IN /\ block_stack' = block_stack
           /\ parsed' = SetAt(parsed, Innermost,
                              SetItem(GetAt(parsed, Innermost), key, value))

\* Parsing the same source with `=` and `:` exchanged at any of the
\* positions where a statement's separator was read returns the same
\* Namespace.
C1_SeparatorsAgree ==
    status = "returned" =>
        \A S \in SUBSET {i \in seps : IsSeparator(tokens[i + 1])} :
            LET r == Run(ParserStart(SwapSeparators(tokens, S)))
            IN r.status = "returned" /\ r.parsed = parsed

C2_StatementIffSeparator ==
    (status = "running" /\ TopFrame.pc = "enter"
        /\ TopFrame.fn \in {"parse_stmt", "parse_block"}) =>
            /\ Len(tokens) >= TopFrame.start + 2
            /\ TopFrame.fn = "parse_stmt"
                    <=> IsSeparator(tokens[TopFrame.start + 2])

C3_Terminated ==
    Returns("parse_stmt") =>
        LET term == IF TopFrame.pc = "enter" THEN TopFrame.start + 3
                    ELSE tknidx
        IN /\ term < Len(tokens)
           /\ tokens[term + 1] \in {SyntaxToken(";"), SyntaxToken("\n")}
           /\ tknidx' > term

\* C3: a statement is accepted only if its value is directly followed by
\* a SYNTAX `;` or NEWLINE token, which is consumed.
C3_TerminatorRequired == [][C3_Terminated]_vars

----------------------------------------------------------------------------
(* Blocks                                                                  *)

\* The step of parse_block that reads a block header is taken.
HeaderStep ==
    /\ status = "running"
    /\ TopFrame.fn = "parse_block" /\ TopFrame.pc = "enter"
    /\ (frames' # frames \/ status' # status)

\* The header at the cursor is `kind {`.
UnnamedHeader ==
    /\ Len(tokens) >= tknidx + 2
    /\ tokens[tknidx + 2] = SyntaxToken("{")

\* The header at the cursor is `kind NAME {`.
NamedHeader ==
    /\ Len(tokens) >= tknidx + 3
    /\ tokens[tknidx + 2].kind = LexerState_STRING
    /\ tokens[tknidx + 3] = SyntaxToken("{")

\* The calls of parse_block whose body is being parsed, outermost first.
OpenBlocks ==
    SelectSeq(frames, LAMBDA f : f.fn = "parse_block" /\ f.pc = "loop")

\* The keys under which the header read by the call f stored its Namespace.
HeaderPath(f) ==
    IF tokens[f.start + 2].value = "{"
    THEN <<tokens[f.start + 1].value>>
    ELSE <<tokens[f.start + 1].value, tokens[f.start + 2].value>>

\* The path leads through the tree to a Namespace.
RECURSIVE Resolves(_, _)
Resolves(node, path) ==
    IF path = <<>> THEN node.t = "ns"
    ELSE /\ node.t \in {"ns", "dict"}
         /\ Contains(node, Head(path))
         /\ Resolves(GetItem(node, Head(path)), Tail(path))

\* block_stack is the root followed by one Namespace for every block whose
\* `{` has been read and whose `}` has not, each stored in the one before
\* it under the keys of its header; it holds only the root when parse
\* returns.
C4_Nesting ==
    /\ Len(block_stack) = Len(OpenBlocks) + 1
    /\ block_stack[1] = <<>>
    /\ \A i \in 1..Len(OpenBlocks) :
           block_stack[i + 1] = block_stack[i] \o HeaderPath(OpenBlocks[i])
    /\ \A i \in 1..Len(block_stack) : Resolves(parsed, block_stack[i])
    /\ status = "returned" => block_stack = << <<>> >>

\* The header `kind {` stores a fresh Namespace under `kind` in the
\* innermost open Namespace, replacing what was there, and makes it the
\* innermost open Namespace.
C4_Opened ==
    (HeaderStep /\ UnnamedHeader /\ status' = "running") =>
        LET kind == tokens[tknidx + 1].value
        IN /\ parsed' = SetAt(parsed, Innermost,
                              SetItem(GetAt(parsed, Innermost), kind,
                                      Namespace(None, EmptyMap)))
           /\ block_stack' = Append(block_stack, Innermost \o <<kind>>)

\* A block returns by consuming `}`: the tree is unchanged and the
\* enclosing Namespace is the innermost open one again.
C4_Closed ==
    Returns("parse_block") =>
        /\ tokens[tknidx + 1].value = "}"
        /\ tknidx' = tknidx + 1
        /\ parsed' = parsed
        /\ block_stack' = SubSeq(block_stack, 1, Len(block_stack) - 1)

RECURSIVE Carried(_)
Carried(node) ==
    IF node.t = "ns"
    THEN \A k \in DOMAIN node.attrs : Carried(node.attrs[k])
    ELSE IF node.t = "dict"
    THEN \A n \in DOMAIN node.insts :
            /\ node.insts[n].t = "ns"
            /\ node.insts[n].name = n
            /\ Carried(node.insts[n])
    ELSE TRUE

\* The header `kind NAME {` stores a fresh Namespace carrying NAME at
\* [kind][NAME] of the innermost open Namespace: the mapping is created when
\* `kind` is not set, the other instances of an existing mapping are kept,
\* and nothing else changes.
C5_NamedOpened ==
    (HeaderStep /\ ~UnnamedHeader /\ NamedHeader) =>
        LET kind == tokens[tknidx + 1].value
            name == tokens[tknidx + 2].value
            cur == GetAt(parsed, Innermost)
            new_block == Namespace(name, EmptyMap)
            held == IF ~Contains(cur, kind) THEN Dict(EmptyMap)
                    ELSE GetItem(cur, kind)
        IN held.t = "dict" =>
           /\ status' = "running"
           /\ parsed' = SetAt(parsed, Innermost,
                               SetItem(cur, kind, SetItem(held, name, new_block)))
           /\ GetAt(parsed', Innermost \o <<kind, name>>) = new_block
           /\ block_stack' = Append(block_stack, Innermost \o <<kind, name>>)

\* The tree changes only when a statement returns or a block header is read.
C5_OnlyStores ==
    parsed' # parsed => (Returns("parse_stmt") \/ HeaderStep)

C6_CollisionIsParseError ==
    [][(/\ HeaderStep /\ ~UnnamedHeader /\ NamedHeader
        /\ Contains(GetAt(parsed, Innermost), tokens[tknidx + 1].value)
        /\ GetItem(GetAt(parsed, Innermost), tokens[tknidx + 1].value).t # "dict")
            => status' = "ParseError"]_vars

----------------------------------------------------------------------------
(* Lists                                                                   *)

NEWLINE == SyntaxToken("\n")

\* The list a well-formed list value denotes, read from its tokens by their
\* kinds: `[`, then items separated by `,` and closed by `]`, an item being
\* a STRING token or a list, NEWLINE tokens anywhere between.  `stack` holds
\* the items read so far of every list that is open at token i.
RECURSIVE RefScan(_, _, _, _)
RefScan(sp, i, stack, expect) ==
    LET depth == Len(stack)
        error == [st |-> "error", value |-> List(<<>>)]
        push(item) == [stack EXCEPT ![depth] = Append(@, item)]
    IN IF i > Len(sp) THEN [st |-> "open", value |-> List(<<>>)]
       ELSE IF sp[i] = NEWLINE THEN RefScan(sp, i + 1, stack, expect)
       ELSE IF expect = "item"
       THEN IF sp[i].kind = LexerState_STRING
            THEN RefScan(sp, i + 1, push(Str(sp[i].value)), "delim")
            ELSE IF sp[i] = SyntaxToken("[")
            THEN RefScan(sp, i + 1, Append(stack, <<>>), "item")
            ELSE error
       ELSE IF sp[i] = SyntaxToken(",") THEN RefScan(sp, i + 1, stack, "item")
       ELSE IF sp[i] # SyntaxToken("]") THEN error
       ELSE IF depth = 1
       THEN IF i = Len(sp) THEN [st |-> "closed", value |-> List(stack[1])]
            ELSE error
       ELSE RefScan(sp, i + 1,
                    [SubSeq(stack, 1, depth - 1) EXCEPT
                        ![depth - 1] = Append(@, List(stack[depth]))],
                    "delim")

RefList(sp) ==
    IF sp = <<>> \/ sp[1] # SyntaxToken("[")
    THEN [st |-> "error", value |-> List(<<>>)]
    ELSE RefScan(sp, 2, << <<>> >>, "item")

InsertAt(toks, p, tok) ==
    SubSeq(toks, 1, p) \o <<tok>> \o SubSeq(toks, p + 1, Len(toks))

RemoveAt(toks, p) == SubSeq(toks, 1, p - 1) \o SubSeq(toks, p + 1, Len(toks))

\* parse_list returns, for a well-formed list value, the list of its items
\* in source order: strings for the scalar items, lists for the nested ones.
C7_Value ==
    Returns("parse_list") =>
        LET ref == RefList(SubSeq(tokens, TopFrame.start + 1, tknidx'))
        IN ref.st = "closed" => retval' = ref.value

\* A NEWLINE token more or less anywhere between the `[` and the `]` of a
\* list of an accepted source gives the same Namespace.
C7_NewlinesIgnored ==
    status = "returned" =>
        \A sp \in spans : \A p \in (sp[1] + 1)..sp[2] :
            /\ LET r == Run(ParserStart(InsertAt(tokens, p, NEWLINE)))
               IN r.status = "returned" /\ r.parsed = parsed
            /\ tokens[p] = NEWLINE =>
                   LET r == Run(ParserStart(RemoveAt(tokens, p)))
                   IN r.status = "returned" /\ r.parsed = parsed

RECURSIVE NextSolid(_)
NextSolid(i) ==
    IF i > Len(tokens) THEN 0
    ELSE IF tokens[i] = NEWLINE THEN NextSolid(i + 1)
    ELSE i

\* A step of parse_list is taken.
ListStep ==
    /\ status = "running"
    /\ TopFrame.fn = "parse_list"
    /\ (frames' # frames \/ status' # status)

\* The position where the step of parse_list expects an item, 0 when it
\* does not expect one.
ItemPos ==
    IF TopFrame.pc = "enter" THEN NextSolid(tknidx + 2)
    ELSE IF TopFrame.pc = "item" THEN NextSolid(tknidx + 1)
    ELSE 0

\* The position after the item the step of parse_list has read, 0 when it
\* has read none.
DelimPos ==
    IF TopFrame.pc = "sep" THEN NextSolid(tknidx + 1)
    ELSE IF ItemPos # 0 /\ tokens[ItemPos].kind = LexerState_STRING
    THEN NextSolid(ItemPos + 1)
    ELSE 0

\* The list at the cursor is `[`, NEWLINE tokens, `]`.
EmptyList ==
    /\ ListStep /\ TopFrame.pc = "enter"
    /\ ItemPos # 0 /\ tokens[ItemPos] = SyntaxToken("]")

\* C8 (as stated): `[` followed only by NEWLINE tokens and `]` is accepted
\* and yields the empty list.
C8_EmptyListAccepted ==
    [][EmptyList => (Returns("parse_list") /\ retval' = List(<<>>))]_vars

\* C8 (amended): a list holds at least one item; `[` followed only by
\* NEWLINE tokens and `]` makes parse fail with ParseError, and no list that
\* parse_list returns is empty.
C8_EmptyListRejected ==
    [][/\ EmptyList => status' = "ParseError"
       /\ Returns("parse_list") => retval' # List(<<>>)]_vars

\* parse has failed at the `]` of `[`, NEWLINE, `]`.
C8_Witness ==
    /\ status = "ParseError"
    /\ TopFrame.fn = "parse_list" /\ TopFrame.pc = "enter"
    /\ tknidx = TopFrame.start + 2
    /\ tknidx < Len(tokens)
    /\ tokens[tknidx] = NEWLINE
    /\ tokens[tknidx + 1] = SyntaxToken("]")

\* C9: in a list a SYNTAX token other than `[` where an item is expected
\* (so also a `]` after a `,`), and a token other than `,` and `]` after an
\* item, make parse fail with ParseError.
C9_CommaRequired ==
    [][ListStep =>
        /\ (ItemPos # 0 /\ tokens[ItemPos].kind = LexerState_SYNTAX
                /\ tokens[ItemPos] # SyntaxToken("["))
              => status' = "ParseError"
        /\ (DelimPos # 0
                /\ tokens[DelimPos] \notin {SyntaxToken(","), SyntaxToken("]")})
              => status' = "ParseError"]_vars

----------------------------------------------------------------------------
(* Scalars                                                                 *)

\* The keys of the Namespaces and mappings of a tree.
RECURSIVE AllKeys(_)
AllKeys(node) ==
    IF node.t = "ns"
    THEN DOMAIN node.attrs
            \cup UNION {AllKeys(node.attrs[k]) : k \in DOMAIN node.attrs}
    ELSE IF node.t = "dict"
    THEN DOMAIN node.insts
            \cup UNION {AllKeys(node.insts[n]) : n \in DOMAIN node.insts}
    ELSE {}

\* C10: every key of every Namespace of a returned tree is the value of a
\* STRING token of the source; a SYNTAX token as statement key, block kind
\* or block name makes parse fail.
C10_KeysAreStrings ==
    status = "returned" =>
        \A k \in AllKeys(parsed) :
            \E i \in 1..Len(tokens) : tokens[i] = Token(k, LexerState_STRING)

----------------------------------------------------------------------------
(* The schema and validate_block                                           *)

MaxInsts == 2

\* Python's None as a value, and the values int() and
\* datetime.timedelta(seconds=...) return.
NoValue == [t |-> "none"]
IntValue(n) == [t |-> "int", n |-> n]
Seconds(n) == [t |-> "timedelta", n |-> n]

\* ConfigSetting.__init__; choices {} stands for no choices, convert and
\* validate "none" for no callable.
ConfigSetting(name, required, default, choices, convert, validate) ==
    [name |-> name, required |-> required, default |-> default,
     choices |-> choices, convert |-> convert, validate |-> validate]

\* ConfigBlock.__init__ followed by the add_setting and add_block calls
\* that fill settings and children, in the order of the calls.
ConfigBlock(kind, named, required, validate, settings, children) ==
    [kind |-> kind, named |-> named, required |-> required,
     validate |-> validate, settings |-> settings, children |-> children]

\* The keys of self.settings and of self.children.
SettingNames(b) == {b.settings[i].name : i \in DOMAIN b.settings}
ChildKinds(b) == {b.children[i].kind : i \in DOMAIN b.children}

\* Namespace.get(key, None)
Get(block, key) ==
    IF key \in DOMAIN block.attrs THEN block.attrs[key] ELSE NoValue

\* The converters of the schemas: int, and the converter of the tests,
\* lambda x: datetime.timedelta(seconds=float(x)).  int() takes the text of
\* a number or a number; float() takes the same but not a timedelta.
IntOf == ("1" :> 1) @@ ("-5" :> (0 - 5))
convert(fn, raw_value) ==
    LET number == IF raw_value.t = "str" /\ raw_value.s \in DOMAIN IntOf
                  THEN [ok |-> TRUE, n |-> IntOf[raw_value.s]]
                  ELSE IF raw_value.t = "int"
                  THEN [ok |-> TRUE, n |-> raw_value.n]
                  ELSE [ok |-> FALSE, n |-> 0]
    IN CASE fn = "none" -> [ok |-> TRUE, value |-> raw_value]
         [] fn = "int" -> [ok |-> number.ok, value |-> IntValue(number.n)]
         [] fn = "seconds" -> [ok |-> number.ok, value |-> Seconds(number.n)]

\* The validity predicates of the schemas: bool, and the predicate of the
\* tests, lambda x: abs(x) == x, which raises TypeError for a value that is
\* not a number.
predicate(fn, value) ==
    CASE fn = "truthy" ->
           [ok |-> TRUE,
            result |-> CASE value.t = "none" -> FALSE
                         [] value.t = "str" -> value.s # ""
                         [] value.t \in {"int", "timedelta"} -> value.n # 0
                         [] value.t = "list" -> value.items # <<>>
                         [] value.t = "dict" -> DOMAIN value.insts # {}
                         [] value.t = "ns" -> TRUE]
      [] fn = "nonnegative" ->
           IF value.t \in {"int", "timedelta"}
           THEN [ok |-> TRUE, result |-> value.n >= 0]
           ELSE [ok |-> FALSE, result |-> FALSE]

\* A variant that hands the raw value to the choice check and to the
\* predicate.
validate_value_raw(setting, raw_value) ==
    LET supplied == raw_value # NoValue
        conv == IF supplied THEN convert(setting.convert, raw_value)
                ELSE [ok |-> TRUE, value |-> setting.default]
        checked == IF supplied THEN raw_value ELSE setting.default
        log1 == IF supplied /\ setting.convert # "none"
                THEN <<[fn |-> "convert", arg |-> raw_value]>> ELSE <<>>
        log2 == IF setting.choices # {}
                THEN Append(log1, [fn |-> "choices", arg |-> checked])
                ELSE log1
        log3 == IF setting.validate # "none"
                THEN Append(log2, [fn |-> "validate", arg |-> checked])
                ELSE log2
        pred == predicate(setting.validate, checked)
        failed(log) == [exc |-> "ValidationError", value |-> NoValue, log |-> log]
    IN IF setting.required /\ ~supplied THEN failed(<<>>)
       ELSE IF ~conv.ok THEN failed(log1)
       ELSE IF setting.choices # {} /\ checked \notin setting.choices
       THEN failed(log2)
       ELSE IF setting.validate # "none" /\ ~pred.ok
       THEN [exc |-> "TypeError", value |-> NoValue, log |-> log3]
       ELSE IF setting.validate # "none" /\ ~pred.result THEN failed(log3)
       ELSE [exc |-> "none", value |-> conv.value, log |-> log3]

\* ConfigSetting.validate_value: the exception it raises, or "none" and the
\* value it returns, and the calls it makes to convert, to the membership
\* test of choices and to validate.
validate_value(setting, raw_value) ==
    LET supplied == raw_value # NoValue
        conv == IF supplied THEN convert(setting.convert, raw_value)
                ELSE [ok |-> TRUE, value |-> setting.default]
        log1 == IF supplied /\ setting.convert # "none"
                THEN <<[fn |-> "convert", arg |-> raw_value]>> ELSE <<>>
        log2 == IF setting.choices # {}
                THEN Append(log1, [fn |-> "choices", arg |-> conv.value])
                ELSE log1
        log3 == IF setting.validate # "none"
                THEN Append(log2, [fn |-> "validate", arg |-> conv.value])
                ELSE log2
        pred == predicate(setting.validate, conv.value)
        failed(log) == [exc |-> "ValidationError", value |-> NoValue, log |-> log]
    IN IF setting.required /\ ~supplied THEN failed(<<>>)
       ELSE IF ~conv.ok THEN failed(log1)
       ELSE IF setting.choices # {} /\ conv.value \notin setting.choices
       THEN failed(log2)
       ELSE IF setting.validate # "none" /\ ~pred.ok
       THEN [exc |-> "TypeError", value |-> NoValue, log |-> log3]
       ELSE IF setting.validate # "none" /\ ~pred.result THEN failed(log3)
       ELSE [exc |-> "none", value |-> conv.value, log |-> log3]

\* A call of validate_block: the ConfigBlock it is called on, where its
\* argument `block` is found in the raw input, the local `validated`, the
\* keys the first loop has not checked yet, the positions of the second and
\* the third loop, and the state of the loop over the instances of a named
\* block.
ValidateCall(schema, block, path) ==
    [schema |-> schema, path |-> path, validated |-> block,
     todo |-> DOMAIN block.attrs, si |-> 1, ci |-> 1,
     iter |-> FALSE, itodo |-> {}, inst |-> None]

\* The argument `block` of a call: the raw object at its path.
Block(v, f) == GetAt(v.config, f.path)

\* The loop of validate_block a call is in.
Phase(f) ==
    IF f.todo # {} THEN "check"
    ELSE IF f.si <= Len(f.schema.settings) THEN "settings"
    ELSE IF f.ci <= Len(f.schema.children) THEN "children"
    ELSE "validate"

TopCall(v) == v.calls[Len(v.calls)]
SetCall(v, f) == [v EXCEPT !.calls[Len(v.calls)] = f]
RaiseInValidate(v, exc) == [v EXCEPT !.status = exc]

\* A variant of the first loop that takes only a text for a setting.
vb_check_text_only(v, key) ==
    LET f == TopCall(v)
        value == Block(v, f).attrs[key]
    IN IF key \notin SettingNames(f.schema) /\ key \notin ChildKinds(f.schema)
       THEN RaiseInValidate(v, "ValidationError")
       ELSE IF key \in SettingNames(f.schema) /\ value.t # "str"
       THEN RaiseInValidate(v, "ValidationError")
       ELSE IF key \in ChildKinds(f.schema) /\ value.t \notin {"ns", "dict"}
       THEN RaiseInValidate(v, "ValidationError")
       ELSE SetCall(v, [f EXCEPT !.todo = @ \ {key}])

\* A variant of the first loop that lets a Namespace pass for a setting.
vb_check_lenient(v, key) ==
    LET f == TopCall(v)
        value == Block(v, f).attrs[key]
    IN IF key \notin SettingNames(f.schema) /\ key \notin ChildKinds(f.schema)
       THEN RaiseInValidate(v, "ValidationError")
       ELSE IF key \in ChildKinds(f.schema) /\ value.t \notin {"ns", "dict"}
       THEN RaiseInValidate(v, "ValidationError")
       ELSE SetCall(v, [f EXCEPT !.todo = @ \ {key}])

\* One pass of `for key in block`.
vb_check(v, key) ==
    LET f == TopCall(v)
        value == Block(v, f).attrs[key]
    IN IF key \notin SettingNames(f.schema) /\ key \notin ChildKinds(f.schema)
       THEN RaiseInValidate(v, "ValidationError")
       ELSE IF key \in SettingNames(f.schema) /\ value.t = "ns"
       THEN RaiseInValidate(v, "ValidationError")
       ELSE IF key \in ChildKinds(f.schema) /\ value.t \notin {"ns", "dict"}
       THEN RaiseInValidate(v, "ValidationError")
       ELSE SetCall(v, [f EXCEPT !.todo = @ \ {key}])

\* A variant that stores no key for a setting whose value comes out None.
vb_setting_given(v) ==
    LET f == TopCall(v)
        setting == f.schema.settings[f.si]
        r == validate_value(setting, Get(Block(v, f), setting.name))
    IN IF r.exc # "none" THEN [RaiseInValidate(v, r.exc) EXCEPT !.vlog = r.log]
       ELSE IF r.value = NoValue
       THEN [SetCall(v, [f EXCEPT !.si = @ + 1]) EXCEPT !.vlog = r.log]
       ELSE [SetCall(v, [f EXCEPT !.validated = SetItem(@, setting.name, r.value),
                                  !.si = @ + 1])
                EXCEPT !.vlog = r.log]

\* One pass of `for name, setting in self.settings.items()`.
vb_setting(v) ==
    LET f == TopCall(v)
        setting == f.schema.settings[f.si]
        r == validate_value(setting, Get(Block(v, f), setting.name))
    IN IF r.exc # "none" THEN [RaiseInValidate(v, r.exc) EXCEPT !.vlog = r.log]
       ELSE [SetCall(v, [f EXCEPT !.validated = SetItem(@, setting.name, r.value),
                                  !.si = @ + 1])
                EXCEPT !.vlog = r.log]

\* child.validate_block(value): `validated = block.copy()`, which a string
\* does not have.
vb_call(v, child, value, path, inst) ==
    IF value.t # "ns" THEN RaiseInValidate(v, "AttributeError")
    ELSE [v EXCEPT !.calls = Append(SetCall(v, [TopCall(v) EXCEPT
                                                   !.inst = inst]).calls,
                                    ValidateCall(child, value, path))]

\* A variant that stores an empty Namespace for an absent child block.
vb_child_synthesize(v) ==
    LET f == TopCall(v)
        child == f.schema.children[f.ci]
        kind == child.kind
        block == Block(v, f)
    IN IF kind \notin DOMAIN block.attrs
       THEN IF child.required THEN RaiseInValidate(v, "ValidationError")
            ELSE SetCall(v, [f EXCEPT
                     !.validated = SetItem(@, kind, Namespace(None, EmptyMap)),
                     !.ci = @ + 1])
       ELSE IF block.attrs[kind].t = "dict"
       THEN IF ~f.iter
            THEN SetCall(v, [f EXCEPT !.iter = TRUE,
                                      !.itodo = DOMAIN block.attrs[kind].insts])
            ELSE SetCall(v, [f EXCEPT !.iter = FALSE, !.ci = @ + 1])
       ELSE vb_call(v, child, block.attrs[kind], f.path \o <<kind>>, None)

\* One pass of `for kind, child in self.children.items()` up to the call
\* of child.validate_block, or the end of the loop over the instances.
vb_child(v) ==
    LET f == TopCall(v)
        child == f.schema.children[f.ci]
        kind == child.kind
        block == Block(v, f)
    IN IF kind \notin DOMAIN block.attrs
       THEN IF child.required THEN RaiseInValidate(v, "ValidationError")
            ELSE SetCall(v, [f EXCEPT !.ci = @ + 1])
       ELSE IF block.attrs[kind].t = "dict"
       THEN IF ~f.iter
            THEN SetCall(v, [f EXCEPT !.iter = TRUE,
                                      !.itodo = DOMAIN block.attrs[kind].insts])
            ELSE SetCall(v, [f EXCEPT !.iter = FALSE, !.ci = @ + 1])
       ELSE vb_call(v, child, block.attrs[kind], f.path \o <<kind>>, None)

\* One pass of `for key in block[kind]` up to the call.
vb_instance(v, key) ==
    LET f == TopCall(v)
        child == f.schema.children[f.ci]
    IN vb_call(v, child, Block(v, f).attrs[child.kind].insts[key],
               f.path \o <<child.kind, key>>, key)

\* The end of validate_block: the predicate of the block, and the return
\* to the caller, which stores the result.  The mapping of a named block in
\* `validated` is the object in `block`, so storing an instance writes the
\* raw input.
vb_return(v) ==
    LET f == TopCall(v)
    IN IF f.schema.validate = "reject"
       THEN RaiseInValidate(v, "ValidationError")
       ELSE IF Len(v.calls) = 1 THEN [v EXCEPT !.status = "returned"]
       ELSE LET p == v.calls[Len(v.calls) - 1]
                kind == p.schema.children[p.ci].kind
                rest == SubSeq(v.calls, 1, Len(v.calls) - 2)
            IN IF p.inst = None
               THEN [v EXCEPT !.calls = Append(rest,
                        [p EXCEPT !.validated = SetItem(@, kind, f.validated),
                                  !.ci = @ + 1])]
               ELSE [v EXCEPT
                        !.calls = Append(rest,
                            [p EXCEPT !.validated = SetAt(@, <<kind, p.inst>>,
                                                          f.validated),
                                      !.itodo = @ \ {p.inst},
                                      !.inst = None]),
                        !.config = SetAt(@, p.path \o <<kind, p.inst>>,
                                         f.validated)]

\* One step of validate_block, with the keys taken in some fixed order.
StepValidate(v) ==
    LET f == TopCall(v)
    IN CASE Phase(f) = "check" -> vb_check(v, CHOOSE key \in f.todo : TRUE)
         [] Phase(f) = "settings" -> vb_setting(v)
         [] Phase(f) = "children" ->
              IF f.iter /\ f.itodo # {}
              THEN vb_instance(v, CHOOSE key \in f.itodo : TRUE)
              ELSE vb_child(v)
         [] Phase(f) = "validate" -> vb_return(v)

\* schema.validate_block(block), from the call to its end.
ValidateStart(schema, block) ==
    [config |-> block, calls |-> <<ValidateCall(schema, block, <<>>)>>,
     status |-> "running", vlog |-> <<>>]

RECURSIVE RunValidate(_)
RunValidate(v) ==
    IF v.status # "running" THEN v ELSE RunValidate(StepValidate(v))

\* The schemas: a root block with at most one setting `s` and at most one
\* child block `b`, which has at most one setting `t`.
RootSettings ==
    {<<>>,
     <<ConfigSetting("s", FALSE, NoValue, {}, "none", "none")>>,
     <<ConfigSetting("s", TRUE, NoValue, {}, "int", "nonnegative")>>,
     <<ConfigSetting("s", FALSE, Str("a"), {Str("a")}, "none", "truthy")>>,
     <<ConfigSetting("s", FALSE, NoValue, {IntValue(1)}, "int",
                     "nonnegative")>>,
     <<ConfigSetting("s", FALSE, Seconds(5), {}, "seconds", "nonnegative")>>,
     <<ConfigSetting("s", FALSE, NoValue, {}, "none", "nonnegative")>>}

RootChildren ==
    {<<>>,
     <<ConfigBlock("b", FALSE, FALSE, "none",
                   <<ConfigSetting("t", FALSE, NoValue, {}, "none", "none")>>,
                   <<>>)>>,
     <<ConfigBlock("b", TRUE, FALSE, "none",
                   <<ConfigSetting("t", TRUE, NoValue, {}, "int", "none")>>,
                   <<>>)>>,
     <<ConfigBlock("b", FALSE, TRUE, "reject", <<>>, <<>>)>>}

Schemas ==
    {ConfigBlock("root", FALSE, FALSE, "none", s, c) :
        s \in RootSettings, c \in RootChildren}

\* The raw Namespaces: what the parser can return for the keys s, b and u,
\* and a string where an instance is expected.
Maps(keys, values) == UNION {[K -> values] : K \in SUBSET keys}

InstNames == <<"i", "j", "k">>

InnerBlocks ==
    {Namespace(None, a) :
        a \in Maps({"t", "u"}, {Str("1"), Namespace(None, EmptyMap)})}

Instances ==
    {Namespace(None, EmptyMap), Namespace(None, "t" :> Str("1")),
     Namespace(None, "u" :> Str("1")), Str("a")}

NamedBlocks ==
    {Dict(d) : d \in Maps({InstNames[n] : n \in 1..MaxInsts}, Instances)}

RawConfigs ==
    {Namespace(None, s @@ u @@ b) :
        s \in Maps({"s"}, {Str("a"), Str("1"), Str("-5"),
                           Namespace(None, EmptyMap)}),
        u \in Maps({"u"}, {Str("a"), Namespace(None, EmptyMap)}),
        b \in Maps({"b"}, {Str("a")} \cup InnerBlocks \cup NamedBlocks)}

VCur == [config |-> config, calls |-> calls, status |-> status, vlog |-> vlog]

\* ComfyParser.validate(config) on a parser that is not parsing.
ValidateInit ==
    /\ config_spec \in Schemas
    /\ config \in RawConfigs
    /\ calls = <<ValidateCall(config_spec, config, <<>>)>>
    /\ config0 = config
    /\ vlog = <<>>
    /\ paths = <<>>
    /\ pathidx = 0
    /\ validate_calls = 1
    /\ addlog = <<>>
    /\ lexcall = NoCall
    /\ status = "running"
    /\ vocabulary = "all"
    /\ tokens = <<>>
    /\ closed = TRUE
    /\ tknidx = 0
    /\ lineno = 1
    /\ parsed = Namespace(None, EmptyMap)
    /\ block_stack = << <<>> >>
    /\ frames = <<>>
    /\ retval = Str("")
    /\ msgline = NoLine
    /\ seps = {}
    /\ spans = {}
    /\ source = <<>>
    /\ srcclosed = TRUE
    /\ LexerInit

VInstall(v) ==
    /\ config' = v.config
    /\ calls' = v.calls
    /\ status' = v.status
    /\ vlog' = v.vlog
    /\ UNCHANGED <<config_spec, config0, paths, pathidx, validate_calls,
                   addlog, lexcall, tokens, lineno, msgline, lexvars, parservars>>

VAt(ph) ==
    status = "running" /\ calls # <<>> /\ Phase(calls[Len(calls)]) = ph

VCheck ==
    /\ VAt("check")
    /\ \E key \in calls[Len(calls)].todo : VInstall(vb_check(VCur, key))

VSetting == VAt("settings") /\ VInstall(vb_setting(VCur))

VChild ==
    /\ VAt("children")
    /\ ~(calls[Len(calls)].iter /\ calls[Len(calls)].itodo # {})
    /\ VInstall(vb_child(VCur))

VInstance ==
    /\ VAt("children")
    /\ calls[Len(calls)].iter
    /\ \E key \in calls[Len(calls)].itodo : VInstall(vb_instance(VCur, key))

VReturn == VAt("validate") /\ VInstall(vb_return(VCur))

ValidateNext ==
    \/ VCheck
    \/ VSetting
    \/ VChild
    \/ VInstance
    \/ VReturn

ValidateSpec == ValidateInit /\ [][ValidateNext]_vars

----------------------------------------------------------------------------
(* Namespace.merge and parse_config_files                                  *)

MaxPaths == 2

\* A variant of merge in which the value of `other` replaces the value of
\* `self` for every key of `other`.
merge_update(self, other) ==
    [self EXCEPT !.attrs =
        [k \in DOMAIN self.attrs \cup DOMAIN other.attrs |->
            IF k \in DOMAIN other.attrs THEN other.attrs[k] ELSE self.attrs[k]]]

\* Namespace.merge(other): `self` after the call.  Keys of `other` alone
\* are copied, Namespaces under the same key are merged, mappings of
\* instances under the same key are merged name by name, and any other
\* value of `other` replaces the value of `self`.
RECURSIVE merge(_, _)
merge(self, other) ==
    LET both(a, b) ==
            IF a.t = "ns" /\ b.t = "ns" THEN merge(a, b)
            ELSE IF a.t = "dict" /\ b.t = "dict"
            THEN Dict([n \in DOMAIN a.insts \cup DOMAIN b.insts |->
                        IF n \notin DOMAIN b.insts THEN a.insts[n]
                        ELSE IF n \notin DOMAIN a.insts THEN b.insts[n]
                        ELSE IF a.insts[n].t = "ns" /\ b.insts[n].t = "ns"
                        THEN merge(a.insts[n], b.insts[n])
                        ELSE b.insts[n]])
            ELSE b
    IN [self EXCEPT !.attrs =
           [k \in DOMAIN self.attrs \cup DOMAIN other.attrs |->
               IF k \notin DOMAIN other.attrs THEN self.attrs[k]
               ELSE IF k \notin DOMAIN self.attrs THEN other.attrs[k]
               ELSE both(self.attrs[k], other.attrs[k])]]

\* A variant of the loop body in which the parsed Namespace takes the place
\* of the result.
pcf_replace(result, raw) == raw

\* parse_config_files, the body of its loop:
\* `result.merge(self.parse_config_file(path, validate=False))`.
pcf_merge(result, raw) == merge(result, raw)

\* What the file of a path can parse to: a raw Namespace with the keys s
\* and b, or nothing when the parse fails.
ParseFailed == [t |-> "ParseError"]

FileBlocks ==
    {Namespace(None, EmptyMap), Namespace(None, "t" :> Str("1")),
     Namespace(None, "u" :> Str("1")),
     Dict("i" :> Namespace(None, "t" :> Str("1"))),
     Dict("i" :> Namespace(None, "u" :> Str("1"))),
     Dict("j" :> Namespace(None, EmptyMap))}

FileResults ==
    {Namespace(None, s @@ b) :
        s \in Maps({"s"}, {Str("1"), Str("a")}),
        b \in Maps({"b"}, FileBlocks)} \cup {ParseFailed}

\* The schemas of a parser that reads several files.
FileSchemas ==
    {ConfigBlock("root", FALSE, FALSE, "none", s, c) :
        s \in {<<>>, <<ConfigSetting("s", TRUE, NoValue, {}, "int",
                                     "nonnegative")>>},
        c \in RootChildren}

\* ComfyParser.parse_config_files(paths) at `result = Namespace()`.
FilesInit ==
    /\ config_spec \in FileSchemas
    /\ paths \in UNION {[1..n -> FileResults] : n \in 0..MaxPaths}
    /\ pathidx = 0
    /\ config = Namespace(None, EmptyMap)
    /\ calls = <<>>
    /\ config0 = Namespace(None, EmptyMap)
    /\ vlog = <<>>
    /\ validate_calls = 0
    /\ addlog = <<>>
    /\ lexcall = NoCall
    /\ status = "running"
    /\ vocabulary = "all"
    /\ tokens = <<>>
    /\ closed = TRUE
    /\ tknidx = 0
    /\ lineno = 1
    /\ parsed = Namespace(None, EmptyMap)
    /\ block_stack = << <<>> >>
    /\ frames = <<>>
    /\ retval = Str("")
    /\ msgline = NoLine
    /\ seps = {}
    /\ spans = {}
    /\ source = <<>>
    /\ srcclosed = TRUE
    /\ LexerInit

\* One pass of `for path in paths`: the file is parsed without validation
\* and merged into the result, or the ParseError of the parse escapes.
ParseFile ==
    /\ status = "running"
    /\ validate_calls = 0
    /\ pathidx < Len(paths)
    /\ pathidx' = pathidx + 1
    /\ IF paths[pathidx + 1] = ParseFailed
       THEN status' = "ParseError" /\ config' = config
       ELSE status' = status /\ config' = pcf_merge(config, paths[pathidx + 1])
    /\ UNCHANGED <<config_spec, calls, config0, vlog, paths, validate_calls,
                   addlog, lexcall, tokens, lineno, msgline, lexvars, parservars>>

\* `return self.validate(result)`, up to the call of validate_block.
FilesValidate ==
    /\ status = "running"
    /\ validate_calls = 0
    /\ pathidx = Len(paths)
    /\ validate_calls' = 1
    /\ calls' = <<ValidateCall(config_spec, config, <<>>)>>
    /\ config0' = config
    /\ UNCHANGED <<config_spec, config, vlog, paths, pathidx, status,
                   addlog, lexcall, tokens, lineno, msgline, lexvars, parservars>>

FilesNext ==
    \/ ParseFile
    \/ FilesValidate
    \/ VCheck
    \/ VSetting
    \/ VChild
    \/ VInstance
    \/ VReturn

FilesSpec == FilesInit /\ [][FilesNext]_vars

----------------------------------------------------------------------------
(* Building a schema: add_setting and add_block                            *)

MaxAdds == 3

\* `self.settings[name] = setting` and `self.children[kind] = child`: the
\* value of an existing key is replaced where it stands, a new key goes
\* last.
SetSetting(settings, setting) ==
    IF \E i \in DOMAIN settings : settings[i].name = setting.name
    THEN [i \in DOMAIN settings |->
            IF settings[i].name = setting.name THEN setting ELSE settings[i]]
    ELSE Append(settings, setting)

SetChild(children, child) ==
    IF \E i \in DOMAIN children : children[i].kind = child.kind
    THEN [i \in DOMAIN children |->
            IF children[i].kind = child.kind THEN child ELSE children[i]]
    ELSE Append(children, child)

\* A variant of add_setting without the check of the name.
add_setting_unchecked(self, name, required, default, choices, conv, validate) ==
    IF required /\ default # NoValue
    THEN [exc |-> "ConfigSpecError", self |-> self]
    ELSE [exc |-> "none",
          self |-> [self EXCEPT !.settings =
                      SetSetting(@, ConfigSetting(name, required, default,
                                                  choices, conv, validate))]]

\* A variant of add_setting without the check of required and default.
add_setting_conflicting(self, name, required, default, choices, conv, validate) ==
    IF name \in SettingNames(self) \/ name \in ChildKinds(self)
    THEN [exc |-> "ConfigSpecError", self |-> self]
    ELSE [exc |-> "none",
          self |-> [self EXCEPT !.settings =
                      SetSetting(@, ConfigSetting(name, required, default,
                                                  choices, conv, validate))]]

\* ConfigBlock.add_setting: the exception it raises and the block after
\* the call.
add_setting(self, name, required, default, choices, conv, validate) ==
    IF name \in SettingNames(self) \/ name \in ChildKinds(self)
    THEN [exc |-> "ConfigSpecError", self |-> self]
    ELSE IF required /\ default # NoValue
    THEN [exc |-> "ConfigSpecError", self |-> self]
    ELSE [exc |-> "none",
          self |-> [self EXCEPT !.settings =
                      SetSetting(@, ConfigSetting(name, required, default,
                                                  choices, conv, validate))]]

\* A variant of add_block without the check of the kind.
add_block_unchecked(self, kind, named, required, validate) ==
    [exc |-> "none",
     self |-> [self EXCEPT !.children =
                 SetChild(@, ConfigBlock(kind, named, required, validate,
                                         <<>>, <<>>))]]

\* ConfigBlock.add_block: the exception it raises and the block after the
\* call.
add_block(self, kind, named, required, validate) ==
    IF kind \in SettingNames(self) \/ kind \in ChildKinds(self)
    THEN [exc |-> "ConfigSpecError", self |-> self]
    ELSE [exc |-> "none",
          self |-> [self EXCEPT !.children =
                      SetChild(@, ConfigBlock(kind, named, required, validate,
                                              <<>>, <<>>))]]

\* The names the calls use.
AddNames == {"s", "t", "b"}

\* The blocks the calls are made on: the top-level block of the parser,
\* <<>>, and the blocks add_block has returned for it, each by its kind.
AddTargets == {<<>>} \cup {<<k>> : k \in ChildKinds(config_spec)}

\* The block of a target, and the schema with that block replaced.
TargetBlock(target) ==
    IF target = <<>> THEN config_spec
    ELSE LET i == CHOOSE i \in DOMAIN config_spec.children :
                    config_spec.children[i].kind = target[1]
         IN config_spec.children[i]

WithTarget(target, block) ==
    IF target = <<>> THEN block
    ELSE [config_spec EXCEPT !.children = SetChild(@, block)]

\* ComfyParser.__init__: an empty top-level block.
SchemaInit ==
    /\ config_spec = ConfigBlock("root", FALSE, TRUE, "none", <<>>, <<>>)
    /\ addlog = <<>>
    /\ lexcall = NoCall
    /\ config = Namespace(None, EmptyMap)
    /\ calls = <<>>
    /\ config0 = Namespace(None, EmptyMap)
    /\ vlog = <<>>
    /\ paths = <<>>
    /\ pathidx = 0
    /\ validate_calls = 0
    /\ status = "running"
    /\ vocabulary = "all"
    /\ tokens = <<>>
    /\ closed = TRUE
    /\ tknidx = 0
    /\ lineno = 1
    /\ parsed = Namespace(None, EmptyMap)
    /\ block_stack = << <<>> >>
    /\ frames = <<>>
    /\ retval = Str("")
    /\ msgline = NoLine
    /\ seps = {}
    /\ spans = {}
    /\ source = <<>>
    /\ srcclosed = TRUE
    /\ LexerInit

\* The outcome of a call is installed; the caller goes on after a
\* ConfigSpecError.
Added(op, target, name, named, required, default, out) ==
    /\ config_spec' = WithTarget(target, out.self)
    /\ addlog' = Append(addlog, [op |-> op, target |-> target, name |-> name,
                                 named |-> named, required |-> required,
                                 default |-> default, exc |-> out.exc])
    /\ UNCHANGED <<config, calls, config0, vlog, paths, pathidx,
                   validate_calls, lexcall, status, tokens, lineno, msgline,
                   lexvars, parservars>>

\* A call of add_setting on one of the blocks.
AddSetting ==
    /\ Len(addlog) < MaxAdds
    /\ \E target \in AddTargets, name \in AddNames, required \in BOOLEAN,
          default \in {NoValue, Str("a")} :
        Added("add_setting", target, name, FALSE, required, default,
              add_setting(TargetBlock(target), name, required, default, {},
                          "none", "none"))

\* A call of add_block on one of the blocks.
AddBlock ==
    /\ Len(addlog) < MaxAdds
    /\ \E target \in AddTargets, kind \in AddNames, named \in BOOLEAN,
          required \in BOOLEAN :
        Added("add_block", target, kind, named, required, NoValue,
              add_block(TargetBlock(target), kind, named, required, "none"))

SchemaNext ==
    \/ AddSetting
    \/ AddBlock

SchemaSpec == SchemaInit /\ [][SchemaNext]_vars

----------------------------------------------------------------------------
(* Calls on a lexer: tokenize, peek, consume, is_exhausted                 *)

MaxScan == 3
MaxCalls == 3

\* One iteration of the loop of _tokenize in a scan that need not be the
\* first on its lexer: in the STRING state with the local `token` still
\* empty, `token[0]` raises IndexError, which _tokenize turns into
\* SyntaxError("Unexpected EOF").
ScanStep(l) ==
    IF /\ l.srcchar < Len(l.source)
       /\ l.state = LexerState_STRING
       /\ l.token = <<>>
       /\ peek_char(l) # "\\"
    THEN [l EXCEPT !.status = "SyntaxError"]
    ELSE LexStep(l)

RECURSIVE ScanLoop(_)
ScanLoop(l) == IF l.status # "running" THEN l ELSE ScanLoop(ScanStep(l))

\* ComfyLexer._tokenize: `token = ""`, then the loop, from wherever the
\* cursor and the state of the lexer are.
Scan(l) == ScanLoop([l EXCEPT !.token = <<>>, !.status = "running"])

\* ComfyLexer.tokenize: `if not self._tokens: self._tokenize()`.
tokenize(l) ==
    IF l.tokens = <<>>
    THEN [l |-> Scan(l), scanned |-> TRUE]
    ELSE [l |-> l, scanned |-> FALSE]

\* self._tokens[self._tknidx:self._tknidx+num]
Slice(s, num) ==
    [i \in 1..(IF s.tknidx + num <= Len(s.tokens) THEN num
               ELSE IF s.tknidx >= Len(s.tokens) THEN 0
               ELSE Len(s.tokens) - s.tknidx) |-> s.tokens[s.tknidx + i]]

\* The sources of a lexer.
ScanSources == UNION {[1..n -> Chars] : n \in 0..MaxScan}

\* ComfyLexer(source), not yet used.
CursorInit ==
    /\ source \in ScanSources
    /\ srcclosed = TRUE
    /\ LexerInit
    /\ tokens = <<>>
    /\ tknidx = 0
    /\ status = "running"
    /\ vocabulary = "all"
    /\ closed = TRUE
    /\ lineno = 1
    /\ parsed = Namespace(None, EmptyMap)
    /\ block_stack = << <<>> >>
    /\ frames = <<>>
    /\ retval = Str("")
    /\ msgline = NoLine
    /\ seps = {}
    /\ spans = {}
    /\ NoValidation

\* The cursor on the token list that the tokenize() at the beginning of
\* a method leaves.
Scanned == [tokens |-> tokenize(LexCur).l.tokens, tknidx |-> tknidx]

\* A call from outside: every method begins with self.tokenize(); an
\* exception of the scan ends the call, otherwise `does` is the exception,
\* the result and the cursor of the method itself.
LexCall(op, arg, does) ==
    LET r == tokenize(LexCur)
        failed == r.scanned /\ r.l.status # "tokenized"
        out == IF failed
               THEN [exc |-> r.l.status, result |-> <<>>, tknidx |-> tknidx]
               ELSE does
    IN /\ srcchar' = r.l.srcchar
       /\ state' = r.l.state
       /\ token' = r.l.token
       /\ tokstart' = r.l.tokstart
       /\ tokens' = r.l.tokens
       /\ status' = r.l.status
       /\ tknidx' = out.tknidx
       /\ lexcall' = [n |-> lexcall.n + 1, op |-> op, arg |-> arg,
                      scans |-> lexcall.scans + (IF r.scanned THEN 1 ELSE 0),
                      exc |-> out.exc, result |-> out.result,
                      first |-> IF lexcall.n = 0 THEN r.l.tokens
                                ELSE lexcall.first]
       /\ UNCHANGED <<source, srcclosed, vocabulary, closed, lineno, parsed,
                      block_stack, frames, retval, msgline, seps, spans,
                      config_spec, config, calls, config0, vlog, paths,
                      pathidx, validate_calls, addlog>>

\* lexer.tokenize()
CallTokenize ==
    /\ lexcall.n < MaxCalls
    /\ LexCall("tokenize", 0,
               [exc |-> "none", result |-> <<>>, tknidx |-> tknidx])

\* lexer.peek(offset)
CallPeek ==
    /\ lexcall.n < MaxCalls
    /\ \E offset \in 0..1 :
        LexCall("peek", offset,
                IF InRange(Scanned, offset)
                THEN [exc |-> "none", result |-> peek(Scanned, offset),
                      tknidx |-> tknidx]
                ELSE [exc |-> "IndexError", result |-> <<>>,
                      tknidx |-> tknidx])

\* lexer.consume(num)
CallConsume ==
    /\ lexcall.n < MaxCalls
    /\ \E num \in 1..2 :
        LexCall("consume", num,
                [exc |-> "none", result |-> Slice(Scanned, num),
                 tknidx |-> consume(Scanned, num).tknidx])

\* lexer.is_exhausted()
CallIsExhausted ==
    /\ lexcall.n < MaxCalls
    /\ LexCall("is_exhausted", 0,
               [exc |-> "none", result |-> is_exhausted(Scanned),
                tknidx |-> tknidx])

CursorNext ==
    \/ CallTokenize
    \/ CallPeek
    \/ CallConsume
    \/ CallIsExhausted

CursorSpec == CursorInit /\ [][CursorNext]_vars

----------------------------------------------------------------------------
(* The two phases of a call of _parse                                      *)

\* A call of _parse is in its first phase, lexer.tokenize() on a source
\* that is known in full, or in its second, the grammar functions on a
\* token list; the first phase has no frame of a grammar function.
PhaseInit == CursorInit \/ Init

PhaseNext ==
    \/ /\ frames = <<>>
       /\ \/ LexReady
          \/ LexComment
          \/ LexSyntax
          \/ LexString
          \/ LexValue
          \/ LexEnd
          \/ TokenizeFailed
          \/ TokenizeReturned
    \/ /\ frames # <<>>
       /\ Next

PhaseSpec == PhaseInit /\ [][PhaseNext]_vars

----------------------------------------------------------------------------
(* Errors of a parse call                                                  *)

\* C11: a parse call returns a Namespace or fails with ParseError; a
\* failure of the lexer is reported as ParseError and no exception of
\* another kind escapes.  (SyntaxError is the lexer's exception on its way
\* to the handler in _parse.)
C11_OnlyParseError ==
    status \in {"running", "SyntaxError", "tokenized", "parsing", "returned",
                "ParseError"}

\* The newlines in the values of the first i tokens.
RECURSIVE ConsumedNewlines(_)
ConsumedNewlines(i) ==
    IF i = 0 THEN 0
    ELSE CountNewlines(tokens[i].value) + ConsumedNewlines(i - 1)

\* C12: the message of every ParseError carries the line number of the
\* parse: 1, plus one for each NEWLINE token consumed, plus one for each
\* newline in a consumed string.
C12_ErrorsCarryLine ==
    status = "ParseError" =>
        msgline = 1 + ConsumedNewlines(IF tknidx < Len(tokens) THEN tknidx
                                       ELSE Len(tokens))

----------------------------------------------------------------------------
(* Tokens of a source                                                      *)

\* tokenize() has returned.
Tokenized == status \in {"tokenized", "parsing"}

\* The tokens of a source without quotes and comments, read off its maximal
\* runs of bare characters; `run` is the run that ends where src begins.
RECURSIVE RefTokens(_, _)
RefTokens(src, run) ==
    LET flush == IF run = <<>> THEN <<>>
                 ELSE <<Token(Join(run), LexerState_STRING)>>
    IN IF src = <<>> THEN flush
       ELSE IF Head(src) \in SYNTAX
       THEN flush \o <<SyntaxToken(Head(src))>> \o RefTokens(Tail(src), <<>>)
       ELSE IF Head(src) \in WHITESPACE
       THEN flush \o RefTokens(Tail(src), <<>>)
       ELSE RefTokens(Tail(src), Append(run, Head(src)))

\* The source holds bare characters, blanks and syntax characters only.
Plain(src) == \A i \in 1..Len(src) : src[i] \notin COMMENT \cup QUOTES

\* C13: for a source of bare characters, blanks and syntax characters,
\* tokenize yields in source order one STRING token for each maximal run of
\* bare characters and one SYNTAX token for each syntax character.
C13_PlainSources ==
    Plain(source) =>
        /\ status \in {"running", "tokenized", "parsing"}
        /\ Tokenized => tokens = RefTokens(source, <<>>)

\* A tokenized source of a two-character run, a syntax character, a blank
\* and another run.
C13_Witness ==
    /\ Tokenized
    /\ source = <<"n", "x", "=", " ", "n">>
    /\ tokens = <<Token("nx", LexerState_STRING), SyntaxToken("="),
                  Token("n", LexerState_STRING)>>

\* C14 (as stated): a non-empty source without whitespace, syntax and quote
\* characters yields exactly one token, the STRING token of the source.
C14_OneToken ==
    (source # <<>> /\ \A i \in 1..Len(source) :
            source[i] \notin WHITESPACE \cup SYNTAX \cup QUOTES) =>
        /\ status \in {"running", "tokenized", "parsing"}
        /\ Tokenized => tokens = <<Token(Join(source), LexerState_STRING)>>

\* C14 (amended): a non-empty source without whitespace, syntax, quote and
\* comment characters yields exactly one token, the STRING token of the
\* source, emitted at the end of the input.
C14_OneBareToken ==
    (source # <<>> /\ \A i \in 1..Len(source) :
            source[i] \notin WHITESPACE \cup SYNTAX \cup QUOTES \cup COMMENT) =>
        /\ status \in {"running", "tokenized", "parsing"}
        /\ Tokenized => tokens = <<Token(Join(source), LexerState_STRING)>>

\* A tokenized source that is one bare value of three characters.
C14_Witness ==
    /\ Tokenized
    /\ source = <<"n", "\\", "x">>
    /\ tokens = <<Token("n\\x", LexerState_STRING)>>

\* C15: every token of the token list has kind STRING or SYNTAX.
C15_TokenKinds ==
    \A i \in 1..Len(tokens) :
        tokens[i].kind \in {LexerState_STRING, LexerState_SYNTAX}

----------------------------------------------------------------------------
(* Comments                                                                *)

\* The positions of src that are not in ps, in order.
RECURSIVE Strip(_, _, _)
Strip(src, ps, i) ==
    IF i > Len(src) THEN <<>>
    ELSE (IF i \in ps THEN <<>> ELSE <<src[i]>>) \o Strip(src, ps, i + 1)

\* The positions the scan from l on reads as the characters of comments,
\* their starters included.
RECURSIVE CommentChars(_)
CommentChars(l) ==
    IF l.status # "running" \/ l.srcchar >= Len(l.source) THEN {}
    ELSE (IF l.state = LexerState_COMMENT /\ peek_char(l) # "\n"
          THEN {l.srcchar + 1} ELSE {}) \cup CommentChars(LexStep(l))

\* The positions at which the scan from l on enters a comment.
RECURSIVE CommentStarters(_)
CommentStarters(l) ==
    IF l.status # "running" \/ l.srcchar >= Len(l.source) THEN {}
    ELSE (IF l.state = LexerState_READY /\ peek_char(l) \in COMMENT
          THEN {l.srcchar + 1} ELSE {}) \cup CommentStarters(LexStep(l))

\* The characters after the starters of the comments of the source.
CommentBody == CommentChars(LexerStart(source)) \ CommentStarters(LexerStart(source))

\* The characters, starters included, of the comments that a newline ends.
TerminatedComments ==
    LET cs == CommentChars(LexerStart(source))
    IN {p \in cs : \E q \in (p + 1)..Len(source) :
            /\ source[q] = "\n"
            /\ \A r \in p..(q - 1) : r \in cs}

\* The step of the scan inside a comment.
C16_CommentStep ==
    LexAt(LexerState_COMMENT) =>
        /\ srcchar' = srcchar + 1
        /\ IF source[srcchar + 1] = "\n"
           THEN /\ tokens' = Append(tokens, SyntaxToken("\n"))
                /\ state' = LexerState_READY
           ELSE /\ tokens' = tokens
                /\ state' = LexerState_COMMENT

\* The tokens of the source are those of the source without its comments.
C16_SameTokens ==
    Tokenized =>
        /\ Tokenize(LexerStart(Strip(source, CommentBody, 1))).status = "tokenized"
        /\ Tokenize(LexerStart(Strip(source, CommentBody, 1))).tokens = tokens
        /\ Tokenize(LexerStart(Strip(source, TerminatedComments, 1))).tokens = tokens

\* C16: a comment runs to the end of its line: no character of it adds to a
\* token, whatever the character is, the newline that ends it is emitted as
\* one SYNTAX token, and the tokens of the source are those of the source
\* with the comment body removed.
C16_CommentElided == [](C16_SameTokens) /\ [][C16_CommentStep]_vars

\* A value, a comment holding a quote, the newline and another value.
C16_Witness ==
    /\ Tokenized
    /\ source = <<"n", "#", "'", "\n", "x">>
    /\ CommentBody = {3}
    /\ tokens = <<Token("n", LexerState_STRING), SyntaxToken("\n"),
                  Token("x", LexerState_STRING)>>

----------------------------------------------------------------------------
(* Quoted strings                                                          *)

\* The characters between the quotes of a string opened by q, decoded unit
\* by unit; ok fails where an unescaped q or a bad escape is met.
RECURSIVE RefUnits(_, _)
RefUnits(body, q) ==
    IF body = <<>> THEN [ok |-> TRUE, chars |-> <<>>]
    ELSE IF Head(body) = "\\"
    THEN IF Len(body) < 2 THEN [ok |-> FALSE, chars |-> <<>>]
         ELSE LET d == unicode_escape(SubSeq(body, 1, 2))
                  r == RefUnits(SubSeq(body, 3, Len(body)), q)
              IN [ok |-> d.ok /\ r.ok, chars |-> d.chars \o r.chars]
    ELSE IF Head(body) = q THEN [ok |-> FALSE, chars |-> <<>>]
    ELSE LET r == RefUnits(Tail(body), q)
         IN [ok |-> r.ok, chars |-> <<Head(body)>> \o r.chars]

\* The step of the scan inside a quoted string.
C17_StringStep ==
    LexAt(LexerState_STRING) =>
        LET q == source[tokstart + 1]
            r == RefUnits(SubSeq(source, tokstart + 2, srcchar), q)
        IN /\ q \in QUOTES
           /\ (source[srcchar + 1] = q) <=> (state' = LexerState_READY)
           /\ IF source[srcchar + 1] = q
              THEN /\ r.ok
                   /\ tokens' = Append(tokens,
                                       Token(Join(r.chars), LexerState_STRING))
              ELSE tokens' = tokens

\* C17: a quoted string is closed by the first unescaped occurrence of the
\* quote that opened it and emitted as one STRING token without the quotes;
\* other characters are kept and a backslash and the character after it are
\* decoded as one unit.
C17_QuotedString == [][C17_StringStep]_vars

\* A string holding the other quote and an escaped quote of its own.
C17_Witness ==
    /\ Tokenized
    /\ source = <<"'", "\"", "\\", "'", "'">>
    /\ tokens = <<Token("\"'", LexerState_STRING)>>

\* C18: when the source ends inside a quoted string, tokenize fails with a
\* syntax error and emits no token for the string.
C18_UnterminatedString ==
    [][(status = "running" /\ srcclosed /\ srcchar >= Len(source)
            /\ state = LexerState_STRING)
        => (status' = "SyntaxError" /\ tokens' = tokens)]_vars

\* The step of the scan inside a bare value, at a quote.
C19_QuoteStep ==
    (LexAt(LexerState_VALUE) /\ source[srcchar + 1] \in QUOTES) =>
        /\ status' = "SyntaxError"
        /\ tokens' = tokens

\* C19: a quote met while a bare value is accumulated makes tokenize fail
\* with SyntaxError, which the parse call reports as ParseError.
C19_QuoteInValue ==
    [][C19_QuoteStep /\ (status = "SyntaxError" => status' = "ParseError")]_vars

\* The failure of a scan that stopped in a bare value before a quote,
\* reported as ParseError.
C19_Witness ==
    /\ status = "ParseError"
    /\ state = LexerState_VALUE
    /\ srcchar < Len(source)
    /\ source[srcchar + 1] \in QUOTES

----------------------------------------------------------------------------
(* Structural checks of validate_block                                     *)

\* The raw block does not fit the ConfigBlock: a key that is neither a
\* setting nor a child block, a setting that holds a Namespace, or a child
\* block that holds neither a Namespace nor a mapping of instances.
Misfit(schema, block) ==
    \E key \in DOMAIN block.attrs :
        \/ key \notin SettingNames(schema) /\ key \notin ChildKinds(schema)
        \/ key \in SettingNames(schema) /\ block.attrs[key].t = "ns"
        \/ /\ key \in ChildKinds(schema)
           /\ block.attrs[key].t \notin {"ns", "dict"}

\* A call on a block that does not fit is in its first loop, has converted
\* nothing, and is the call the validation is in or has failed in.
C20_NothingConverted ==
    \A n \in DOMAIN calls :
        Misfit(calls[n].schema, GetAt(config, calls[n].path)) =>
            /\ n = Len(calls)
            /\ calls[n].si = 1
            /\ calls[n].validated = GetAt(config, calls[n].path)
            /\ status \in {"running", "ValidationError"}
            /\ status = "running" => calls[n].todo # {}

\* A step of a call on a block that does not fit checks one more key or
\* raises ValidationError.
C20_CheckStep ==
    (status = "running"
        /\ Misfit(calls[Len(calls)].schema,
                  GetAt(config, calls[Len(calls)].path))) =>
        \/ status' = "ValidationError"
        \/ /\ status' = "running"
           /\ Len(calls') = Len(calls)
           /\ calls'[Len(calls)].todo \subseteq calls[Len(calls)].todo
           /\ calls'[Len(calls)].todo # calls[Len(calls)].todo

----------------------------------------------------------------------------
(* Settings                                                                *)

\* The setting the innermost call is about to validate, the raw value it
\* reads, and the name under which it stores the result.
CurSetting == calls[Len(calls)].schema.settings[calls[Len(calls)].si]
CurRaw == Get(GetAt(config, calls[Len(calls)].path), CurSetting.name)
Stored == calls'[Len(calls)].validated.attrs[CurSetting.name]

\* The child block the innermost call is at.
CurChild == calls[Len(calls)].schema.children[calls[Len(calls)].ci]

\* C21: for a declared setting without a raw value, validation fails with
\* ValidationError when the setting is required; otherwise the validated
\* Namespace holds the default under the setting's name and the converter
\* is not called.
C21_OmittedSetting ==
    [][(VAt("settings") /\ CurRaw = NoValue) =>
        IF CurSetting.required THEN status' = "ValidationError"
        ELSE /\ status' = "running"
             /\ Stored = CurSetting.default
             /\ \A i \in DOMAIN vlog' : vlog'[i].fn # "convert"]_vars

\* The place of a callable in the order of validate_value.
Rank(fn) == CASE fn = "convert" -> 1 [] fn = "choices" -> 2 [] fn = "validate" -> 3

\* The converted value of the setting, or its default.
Converted ==
    IF CurRaw # NoValue THEN convert(CurSetting.convert, CurRaw).value
    ELSE CurSetting.default

\* The calls of one validate_value.
C22_SettingStep ==
    VAt("settings") =>
        /\ \A i, j \in DOMAIN vlog' :
               i < j => Rank(vlog'[i].fn) < Rank(vlog'[j].fn)
        /\ \A i \in DOMAIN vlog' :
               IF vlog'[i].fn = "convert" THEN vlog'[i].arg = CurRaw
               ELSE /\ vlog'[i].arg = Converted
                    /\ (CurRaw # NoValue /\ CurSetting.convert # "none")
                          => vlog'[1].fn = "convert"
        /\ status' = "running" =>
               /\ Stored = Converted
               /\ Len(vlog') = (IF CurRaw # NoValue /\ CurSetting.convert # "none"
                                THEN 1 ELSE 0)
                             + (IF CurSetting.choices # {} THEN 1 ELSE 0)
                             + (IF CurSetting.validate # "none" THEN 1 ELSE 0)

\* C22: validate_value converts, then checks the choices, then calls the
\* validity predicate; the choice check and the predicate get the converted
\* value (or the default), and that value is the one returned.
C22_ConvertFirst == [][C22_SettingStep]_vars

\* A text converted to a number that was then checked against the choices
\* and given to the predicate, and stored.
C22_Witness ==
    /\ status = "running"
    /\ vlog = <<[fn |-> "convert", arg |-> Str("1")],
                [fn |-> "choices", arg |-> IntValue(1)],
                [fn |-> "validate", arg |-> IntValue(1)]>>
    /\ calls[1].si = 2
    /\ calls[1].validated.attrs["s"] = IntValue(1)

\* C23: a supplied value that is not acceptable is reported as
\* ValidationError, whether the converter raises, the value is not among
\* the choices, the predicate returns false or the predicate raises; no
\* other exception escapes validate_value.
C23_OnlyValidationError ==
    [][(VAt("settings") /\ CurRaw # NoValue) =>
        status' \in {"running", "ValidationError"}]_vars

----------------------------------------------------------------------------
(* Child blocks                                                            *)

\* The outcome of validating one raw block on its own.
Alone(schema, block) == RunValidate(ValidateStart(schema, block))

\* The block a call was given, as it was when the validation began.
GivenBlock(f) == GetAt(config0, f.path)

\* What a call that has gone through its children holds for them.
C24_Children ==
    (status = "running" /\ Phase(calls[Len(calls)]) = "validate") =>
        LET f == calls[Len(calls)]
            raw == GivenBlock(f).attrs
            out == f.validated.attrs
        IN \A i \in DOMAIN f.schema.children :
            LET child == f.schema.children[i]
                kind == child.kind
            IN IF kind \notin DOMAIN raw
               THEN ~child.required /\ kind \notin DOMAIN out
               ELSE IF raw[kind].t = "ns"
               THEN /\ Alone(child, raw[kind]).status = "returned"
                    /\ out[kind] = Alone(child, raw[kind]).calls[1].validated
               ELSE /\ out[kind].t = "dict"
                    /\ DOMAIN out[kind].insts = DOMAIN raw[kind].insts
                    /\ \A n \in DOMAIN raw[kind].insts :
                        LET one == Alone(child, raw[kind].insts[n])
                        IN /\ one.status = "returned"
                           /\ out[kind].insts[n] = one.calls[1].validated

\* The step at a child block that the raw block does not have.
C24_AbsentStep ==
    (VAt("children")
        /\ CurChild.kind \notin DOMAIN GetAt(config, calls[Len(calls)].path).attrs)
    => IF CurChild.required THEN status' = "ValidationError"
       ELSE /\ status' = "running"
            /\ calls'[Len(calls)].validated = calls[Len(calls)].validated

\* C24: an absent child block fails the validation when it is required and
\* is absent from the result otherwise; a child present as a Namespace is
\* in the result as its validated Namespace; a child present as a mapping
\* of instances is in the result as a mapping of the same names to the
\* instances validated each on its own.
C24_ChildBlocks == [](C24_Children) /\ [][C24_AbsentStep]_vars

\* A root that has validated two instances of its child block and is about
\* to return.
C24_Witness ==
    /\ status = "running"
    /\ Len(calls) = 1
    /\ Phase(calls[1]) = "validate"
    /\ config0.attrs = ("b" :> Dict(("i" :> Namespace(None, "t" :> Str("1")))
                                    @@ ("j" :> Namespace(None, "t" :> Str("1")))))
    /\ calls[1].validated.attrs["b"].insts["i"].attrs["t"] = IntValue(1)
    /\ calls[1].validated.attrs["b"].insts["j"].attrs["t"] = IntValue(1)

----------------------------------------------------------------------------
(* The raw input of a validation                                           *)

\* C25: when validate_block fails with ValidationError the raw Namespace,
\* with everything reachable from it, is as it was before the call.
C25_FailureLeavesRaw == status = "ValidationError" => config = config0

\* C26: when validate_block succeeds the raw Namespace, with every nested
\* Namespace and mapping, holds the unconverted values it held before.
C26_SuccessLeavesRaw == status = "returned" => config = config0

\* Validating the result of a validation gives the result again.
Revalidated ==
    LET again == Alone(config_spec, calls[1].validated)
    IN /\ again.status = "returned"
       /\ again.calls[1].validated = calls[1].validated

StoredValues(setting) ==
    {setting.default} \cup
    {convert(setting.convert, raw).value :
        raw \in {r \in {Str("a"), Str("1"), Str("-5")} :
                    convert(setting.convert, r).ok}}

\* The converter maps what it returns, and the default, to itself.
Stable(setting) ==
    \A value \in StoredValues(setting) \ {NoValue} :
        convert(setting.convert, value) = [ok |-> TRUE, value |-> value]

RECURSIVE AllStable(_)
AllStable(block) ==
    /\ \A i \in DOMAIN block.settings : Stable(block.settings[i])
    /\ \A i \in DOMAIN block.children : AllStable(block.children[i])

----------------------------------------------------------------------------
(* Merging Namespaces                                                      *)

\* m combines b into a as a right-biased recursive union.
RECURSIVE Union(_, _, _)
Union(a, b, m) ==
    /\ m.t = "ns"
    /\ DOMAIN m.attrs = DOMAIN a.attrs \cup DOMAIN b.attrs
    /\ \A k \in DOMAIN m.attrs :
        IF k \notin DOMAIN b.attrs THEN m.attrs[k] = a.attrs[k]
        ELSE IF k \notin DOMAIN a.attrs THEN m.attrs[k] = b.attrs[k]
        ELSE IF a.attrs[k].t = "ns" /\ b.attrs[k].t = "ns"
        THEN Union(a.attrs[k], b.attrs[k], m.attrs[k])
        ELSE IF a.attrs[k].t = "dict" /\ b.attrs[k].t = "dict"
        THEN /\ m.attrs[k].t = "dict"
             /\ DOMAIN m.attrs[k].insts =
                    DOMAIN a.attrs[k].insts \cup DOMAIN b.attrs[k].insts
             /\ \A n \in DOMAIN m.attrs[k].insts :
                 IF n \notin DOMAIN b.attrs[k].insts
                 THEN m.attrs[k].insts[n] = a.attrs[k].insts[n]
                 ELSE IF n \notin DOMAIN a.attrs[k].insts
                 THEN m.attrs[k].insts[n] = b.attrs[k].insts[n]
                 ELSE Union(a.attrs[k].insts[n], b.attrs[k].insts[n],
                            m.attrs[k].insts[n])
        ELSE m.attrs[k] = b.attrs[k]

\* C28: Namespace.merge(other) combines `other` into `self` as a
\* right-biased recursive union: keys of one side alone are kept,
\* Namespaces under the same key are merged recursively, named-block
\* mappings under the same key are merged per instance name, and in every
\* other case the value of `other` replaces the value of `self`.
C28_RightBiasedUnion ==
    [][(pathidx' = pathidx + 1 /\ status' = "running")
          => Union(config, paths[pathidx + 1], config')]_vars

\* Two files have been merged whose blocks b hold different settings, and
\* the merged block holds both.
C28_Witness ==
    /\ pathidx = 2
    /\ status = "running"
    /\ \A i \in 1..2 : paths[i].t = "ns" /\ "b" \in DOMAIN paths[i].attrs
    /\ paths[1].attrs["b"] = Namespace(None, "t" :> Str("1"))
    /\ paths[2].attrs["b"] = Namespace(None, "u" :> Str("1"))
    /\ "b" \in DOMAIN config.attrs
    /\ config.attrs["b"] = Namespace(None, ("t" :> Str("1")) @@ ("u" :> Str("1")))

----------------------------------------------------------------------------
(* Several sources                                                         *)

\* The first n sources merged, in order, into an empty Namespace.
RECURSIVE Merged(_)
Merged(n) ==
    IF n = 0 THEN Namespace(None, EmptyMap)
    ELSE merge(Merged(n - 1), paths[n])

\* C29: parse_config_files(paths) parses every source without validating
\* it, merges the raw Namespaces in the order of `paths` into one initially
\* empty Namespace, later sources overriding earlier ones field by field,
\* and validates once, the merged Namespace; a required setting or block
\* that any one source supplies is there when the schema is checked, and
\* the call returns the validated Namespace.
C29_MergeThenValidate ==
    /\ validate_calls \in {0, 1}
    /\ validate_calls = 0 =>
        /\ calls = <<>>
        /\ status \in {"running", "ParseError"}
        /\ status = "running" => config = Merged(pathidx)
    /\ validate_calls = 1 =>
        /\ pathidx = Len(paths)
        /\ \A i \in 1..Len(paths) : paths[i] # ParseFailed
        /\ config0 = Merged(Len(paths))
        /\ \A k \in {"s", "b"} :
            (\E i \in 1..Len(paths) : k \in DOMAIN paths[i].attrs)
                => k \in DOMAIN config0.attrs
        /\ status # "running" =>
            /\ status = Alone(config_spec, Merged(Len(paths))).status
            /\ status = "returned" =>
                calls[1].validated =
                    Alone(config_spec, Merged(Len(paths))).calls[1].validated

\* The call has returned the validation of two sources of which only the
\* first supplies the required setting s and only the second the block b.
C29_Witness ==
    /\ status = "returned"
    /\ Len(paths) = 2
    /\ SettingNames(config_spec) = {"s"}
    /\ ChildKinds(config_spec) = {"b"}
    /\ DOMAIN paths[1].attrs = {"s"}
    /\ DOMAIN paths[2].attrs = {"b"}
    /\ DOMAIN calls[1].validated.attrs = {"s", "b"}
    /\ calls[1].validated.attrs["s"] = IntValue(1)

----------------------------------------------------------------------------
(* Names within a block of the schema                                      *)

\* The names a block has given to its settings and child blocks.
Taken(b) == SettingNames(b) \cup ChildKinds(b)

\* No name of any block is both a setting and a child block or is held
\* twice, and no call that returned reused the name of an earlier call
\* that returned on the same block.
C30_Names ==
    /\ \A target \in AddTargets :
        LET b == TargetBlock(target)
        IN /\ SettingNames(b) \cap ChildKinds(b) = {}
           /\ Cardinality(SettingNames(b)) = Len(b.settings)
           /\ Cardinality(ChildKinds(b)) = Len(b.children)
    /\ \A i, j \in DOMAIN addlog :
        (/\ i < j
         /\ addlog[i].exc = "none"
         /\ addlog[j].exc = "none"
         /\ addlog[i].target = addlog[j].target)
            => addlog[i].name # addlog[j].name

\* A call with a name its block has taken raises ConfigSpecError and
\* leaves the schema as it was.
C30_ReuseStep ==
    (/\ Len(addlog') = Len(addlog) + 1
     /\ addlog'[Len(addlog')].name
            \in Taken(TargetBlock(addlog'[Len(addlog')].target)))
        => /\ addlog'[Len(addlog')].exc = "ConfigSpecError"
           /\ config_spec' = config_spec

\* C30: after any sequence of add_setting and add_block calls on a block,
\* no name is both a setting name and a child block kind of that block and
\* no name was accepted twice: a call that reuses a name already taken
\* fails with ConfigSpecError and leaves the settings and children as they
\* were.
C30_NoNameTwice == [](C30_Names) /\ [][C30_ReuseStep]_vars

\* The top-level block has a setting and a child block, and the last call,
\* an add_block with the name of the setting, has raised ConfigSpecError.
C30_Witness ==
    /\ Len(addlog) = 3
    /\ addlog[3].op = "add_block"
    /\ addlog[3].target = <<>>
    /\ addlog[3].exc = "ConfigSpecError"
    /\ addlog[3].name \in SettingNames(config_spec)
    /\ ChildKinds(config_spec) # {}

----------------------------------------------------------------------------
(* Flags of settings and blocks of the schema                              *)

\* The last call made on the schema, in the state after it.
LastAdd == addlog[Len(addlog)]

\* No setting of any block is required and has a default.
C31_Settings ==
    \A target \in AddTargets :
        \A i \in DOMAIN TargetBlock(target).settings :
            LET setting == TargetBlock(target).settings[i]
            IN ~(setting.required /\ setting.default # NoValue)

\* An add_setting with required=True and a default raises ConfigSpecError
\* and leaves the schema as it was.
C31_ConflictStep ==
    (/\ Len(addlog') = Len(addlog) + 1
     /\ LastAdd'.op = "add_setting"
     /\ LastAdd'.required
     /\ LastAdd'.default # NoValue)
        => /\ LastAdd'.exc = "ConfigSpecError"
           /\ config_spec' = config_spec

\* C31: a setting can never be both required and carry a default:
\* add_setting called with required=True together with a default fails
\* with ConfigSpecError and adds nothing, so every setting stored in any
\* schema block satisfies not (required and default present).
C31_RequiredOrDefault == [](C31_Settings) /\ [][C31_ConflictStep]_vars

\* The top-level block has a setting, and the last call, an add_setting of
\* a new name with required=True and a default, has raised ConfigSpecError.
C31_Witness ==
    /\ Len(addlog) = 2
    /\ LastAdd.op = "add_setting"
    /\ LastAdd.target = <<>>
    /\ LastAdd.required
    /\ LastAdd.default = Str("a")
    /\ LastAdd.exc = "ConfigSpecError"
    /\ LastAdd.name \notin Taken(config_spec)
    /\ Len(config_spec.settings) = 1

\* C32: a block can never be both named and required: add_block called
\* with named=True and required=True fails with ConfigSpecError and adds
\* nothing, so no child block stored in any schema has both flags set.
C32_NamedOrRequired ==
    /\ \A target \in AddTargets :
        \A i \in DOMAIN TargetBlock(target).children :
            LET child == TargetBlock(target).children[i]
            IN ~(child.named /\ child.required)
    /\ \A i \in DOMAIN addlog :
        (addlog[i].op = "add_block" /\ addlog[i].named /\ addlog[i].required)
            => addlog[i].exc = "ConfigSpecError"

----------------------------------------------------------------------------
(* The token list and the cursor of a lexer                                *)

\* Once a call has been made the token list is the one the first call
\* left, and the scanner has run once.
C33_Cached ==
    lexcall.n >= 1 => tokens = lexcall.first /\ lexcall.scans = 1

\* What a call does to the cursor, and what it returns.
C33_CallStep ==
    lexcall'.n = lexcall.n + 1 =>
        /\ lexcall.n >= 1 =>
            tokens' = tokens /\ lexcall'.scans = lexcall.scans
        /\ lexcall'.op \in {"tokenize", "peek", "is_exhausted"} =>
            tknidx' = tknidx
        /\ (lexcall'.op = "consume" /\ lexcall'.exc = "none") =>
            /\ tknidx' = tknidx + lexcall'.arg
            /\ lexcall'.result =
                  Slice([tokens |-> tokens', tknidx |-> tknidx], lexcall'.arg)
        /\ (lexcall'.op = "is_exhausted" /\ lexcall'.exc = "none") =>
            lexcall'.result = (tknidx >= Len(tokens'))

\* C33: tokenization happens once: after the first tokenize() on a lexer,
\* any later tokenize, peek, consume or is_exhausted leaves the token list
\* as the first pass produced it and does not run the scanner again, also
\* for sources that yield no tokens; peek never moves the cursor,
\* consume(n) returns the next n tokens and moves the cursor by n, and
\* is_exhausted is true exactly when the cursor has passed the last token.
C33_TokenizedOnce == [](C33_Cached) /\ [][C33_CallStep]_vars

----------------------------------------------------------------------------
(* Calls of _parse on one parser                                           *)

\* C34: parse calls on one ComfyParser are independent of each other: the
\* outcome of a call, the returned Namespace or the error and the line it
\* reports, depends only on the source of the call and never on what
\* earlier calls have left behind; each call starts from line 1, a fresh
\* token list and a fresh root Namespace.  Whatever line number the
\* earlier calls have left, a source that cannot be tokenized is reported
\* at the line a new parser reports it at, and a source that can be starts
\* its parse at line 1, at its first token, with an empty Namespace.
C34_IndependentCalls ==
    /\ status = "ParseError" => msgline = 1
    /\ status = "parsing" =>
        /\ lineno = 1
        /\ tknidx = 0
        /\ parsed = Namespace(None, EmptyMap)
        /\ block_stack = << <<>> >>

----------------------------------------------------------------------------
(* Termination                                                             *)

\* The call has returned or raised.
C35_Done ==
    IF frames = <<>>
    THEN status \in {"parsing", "ParseError", "UnicodeDecodeError"}
    ELSE status # "running"

\* How many steps the lexer can take before it must consume a character,
\* and the parser before it must consume a token, by where they are.
C35_Pending ==
    IF frames = <<>>
    THEN CASE state = LexerState_VALUE -> 3
           [] state = LexerState_READY -> 2
           [] OTHER -> 1
    ELSE LET f == frames[Len(frames)]
         IN CASE f.fn = "parse_stmt" /\ f.pc = "end" -> 7
              [] f.fn = "parse_expr" /\ f.pc = "exit" -> 6
              [] f.fn = "_parse" -> 5
              [] f.fn = "parse_block" /\ f.pc = "loop" -> 5
              [] f.fn = "parse_expr" /\ f.pc = "enter" -> 4
              [] f.fn = "parse_stmt" /\ f.pc = "enter" -> 3
              [] f.fn = "parse_block" /\ f.pc = "enter" -> 3
              [] f.fn = "parse_list" /\ f.pc = "enter" -> 1
              [] OTHER -> 2

\* A natural number that is 0 when the call has ended and that every step
\* of a call makes smaller: what is left of the source or of the token
\* list first, then the steps that can be taken without consuming, then
\* what is not yet known of the token list.
C35_Rank ==
    IF frames = <<>>
    THEN IF status = "running" THEN 8 * (16 - srcchar) + C35_Pending
         ELSE IF status \in {"tokenized", "SyntaxError"} THEN 1
         ELSE 0
    ELSE IF status = "running"
         THEN 32 * (8 * (16 - tknidx) + C35_Pending)
              + (16 - Len(tokens)) + (IF closed THEN 0 ELSE 1)
         ELSE 0

\* An iteration of the lexer's loop consumes a character, emits a token,
\* changes the state or fails; a call of parse_expr, which is one pass of
\* the top-level loop or of the loop of a block body, returns with the
\* cursor moved on; a pass of the loop of parse_list moves the cursor on.
C35_LoopStep ==
    /\ (frames = <<>> /\ status = "running") =>
        \/ srcchar' > srcchar
        \/ Len(tokens') > Len(tokens)
        \/ state' # state
        \/ status' # "running"
    /\ (/\ frames # <<>>
        /\ tokens' = tokens /\ closed' = closed
        /\ status' = "running"
        /\ frames[Len(frames)].fn = "parse_expr"
        /\ Len(frames') < Len(frames)) =>
            tknidx' > frames[Len(frames)].start
    /\ (/\ frames # <<>>
        /\ tokens' = tokens /\ closed' = closed
        /\ status' = "running"
        /\ frames[Len(frames)].fn = "parse_list"
        /\ Len(frames') <= Len(frames)) =>
            tknidx' > tknidx

\* C35: lexing and parsing terminate on every finite source: every
\* iteration of the lexer loop consumes a character, emits a token,
\* changes state or fails, every pass of the parser's top-level loop,
\* block-body loop and list loop consumes at least one token or fails, and
\* so each parse call returns a Namespace or raises an error: every step
\* makes a natural number smaller that is 0 only when the call has ended.
C35_Terminates ==
    /\ [](C35_Rank \in Nat /\ (C35_Rank = 0 <=> C35_Done))
    /\ [][C35_LoopStep /\ C35_Rank' < C35_Rank]_vars

\* The parse of a token list that ends inside a block has raised
\* ParseError at the end of the tokens.
C35_Witness ==
    /\ frames # <<>>
    /\ status = "ParseError"
    /\ closed
    /\ Len(block_stack) > 1
    /\ tknidx >= Len(tokens)

----------------------------------------------------------------------------
(* The keys of a validated Namespace                                       *)

\* The keys of `out` are the settings of the schema block and those of
\* its child block kinds that `raw` has, and so on in every child block
\* and every instance of a named block.
RECURSIVE Keys(_, _, _)
Keys(schema, raw, out) ==
    /\ DOMAIN out.attrs =
          SettingNames(schema) \cup (ChildKinds(schema) \cap DOMAIN raw.attrs)
    /\ \A i \in DOMAIN schema.children :
        LET child == schema.children[i]
            kind == child.kind
        IN kind \in DOMAIN raw.attrs =>
            IF raw.attrs[kind].t = "dict"
            THEN /\ out.attrs[kind].t = "dict"
                 /\ DOMAIN out.attrs[kind].insts = DOMAIN raw.attrs[kind].insts
                 /\ \A n \in DOMAIN raw.attrs[kind].insts :
                     Keys(child, raw.attrs[kind].insts[n],
                          out.attrs[kind].insts[n])
            ELSE Keys(child, raw.attrs[kind], out.attrs[kind])

\* C36: whenever validate_block succeeds, the key set of the returned
\* Namespace is exactly every declared setting name of the schema block,
\* present even when the raw input omitted it (holding the default, which
\* may be None), together with every declared child block kind that was
\* present in the raw input; no other key occurs, at every nesting level.
C36_ReturnedKeys ==
    status = "returned" => Keys(config_spec, config0, calls[1].validated)

\* A validation has returned for a raw Namespace that has the block b with
\* an instance but not the setting s, which has no default, and the block
\* itself omits its setting t.
C36_Witness ==
    /\ status = "returned"
    /\ SettingNames(config_spec) = {"s"}
    /\ ChildKinds(config_spec) = {"b"}
    /\ DOMAIN config0.attrs = {"b"}
    /\ DOMAIN calls[1].validated.attrs = {"s", "b"}
    /\ calls[1].validated.attrs["s"] = NoValue
    /\ config0.attrs["b"] = Namespace(None, EmptyMap)
    /\ calls[1].validated.attrs["b"] = Namespace(None, "t" :> NoValue)
====
